---- MODULE Spec2Model ----
(***************************************************************************)
(* Antigravity-Quota-Viewer: the QuotaService polling client of            *)
(* src/src/apiInterceptor.ts as a state machine.  Every action is the      *)
(* stretch of code that runs between two awaits: Node runs it to           *)
(* completion, and the promise of an I/O operation (a status request, a    *)
(* process scan) is settled from that operation's own callback, so the     *)
(* continuations of two different awaits never interleave inside a step.   *)
(***************************************************************************)
EXTENDS Integers, Sequences, FiniteSets, Bags, TLC

\* ---------------------------------------------------------------- bounds
\* number of _fetchAndEmit invocations the model lets be in flight at once
MaxInFlight == 2
\* _consecutiveFailures is only ever written; the model saturates it here
MaxFailures == 2
\* handles the runtime can hand out for setInterval
MaxTimers == 2

\* ---------------------------------------------------------------- values
\* null / undefined, one value per type so that every comparison is typed
NULL == "null"
NoCode == "undefined"
NoInfo == [pid |-> 0, extensionPort |-> 0, connectPort |-> 0, csrfToken |-> ""]
NoAddress == [port |-> 0, token |-> ""]
NoError == [code |-> NoCode, message |-> <<>>]
NoSnapshot == [from |-> NULL]
NoTimer == 0

\* ProcessInfo values findAntigravityProcess can return: the service before
\* and after a restart on another port with another token.
ProcessInfos ==
    { [pid |-> 100, extensionPort |-> 0, connectPort |-> 5001, csrfToken |-> "aaa-1"],
      [pid |-> 200, extensionPort |-> 0, connectPort |-> 5002, csrfToken |-> "bbb-2"] }

ResolveResults == ProcessInfos \cup {NoInfo}

\* the (port, token) pair a request is addressed with
Address(info) == [port |-> info.connectPort, token |-> info.csrfToken]

\* Errors a status request can end with.  A message is its sequence of words.
ErrRefused == [code |-> "ECONNREFUSED", message |-> <<"connect", "ECONNREFUSED">>]
ErrHangUp  == [code |-> "ECONNRESET",   message |-> <<"socket", "hang", "up">>]
ErrTimeout == [code |-> NoCode,         message |-> <<"Request", "timeout">>]
ErrJson    == [code |-> NoCode,         message |-> <<"Invalid", "JSON", "response">>]
ErrProto   == [code |-> "EPROTO",       message |-> <<"write", "EPROTO">>]
\* thrown by parseQuotaResponse on a body that parses to null
ErrType    == [code |-> NoCode,         message |-> <<"Cannot", "read", "properties", "of", "null">>]
ErrNotFound == [code |-> NoCode,
                message |-> <<"Antigravity", "language", "server", "not", "found">>]

RequestErrors == {ErrRefused, ErrHangUp, ErrTimeout, ErrJson, ErrProto}

\* the failures the transport reports for a refused, reset, timed-out or
\* hung-up connection
ConnectionLost == {ErrRefused, ErrHangUp, ErrTimeout}

\* Bodies of a response that JSON.parse accepts
Bodies == {"status", "null"}

\* what awaiting fetchQuota can produce
FetchOutcomes ==
    [kind : {"resolved"}, body : Bodies, err : {NoError}]
        \cup [kind : {"rejected"}, body : {NULL}, err : RequestErrors]

\* String.prototype.includes on word sequences
Includes(msg, words) ==
    \E i \in 1..Len(msg) :
        /\ i + Len(words) - 1 <= Len(msg)
        /\ SubSeq(msg, i, i + Len(words) - 1) = words

isConnectionError_all(err) == TRUE

isConnectionError(err) ==
    \/ err.code = "ECONNREFUSED"
    \/ err.code = "ECONNRESET"
    \/ err.code = "ETIMEDOUT"
    \/ Includes(err.message, <<"timeout">>)
    \/ Includes(err.message, <<"socket", "hang", "up">>)

\* parseQuotaResponse as far as the cycle depends on it: it throws on a body
\* without properties and yields one snapshot per body otherwise
ParseThrows(body) == body = "null"
SnapshotOf_none(body) == NoSnapshot
SnapshotOf(body) == [from |-> body]

\* ---------------------------------------------------------------- state
VARIABLES
    processInfo,          \* _processInfo: a ProcessInfo or NoInfo
    pollingTimer,         \* _pollingTimer: a timer handle or NoTimer
    armedTimers,          \* the runtime's armed interval timers
    disposed,             \* dispose() has run
    consecutiveFailures,  \* _consecutiveFailures, saturating at MaxFailures
    lastSnapshot,         \* _lastSnapshot
    cycles,               \* the _fetchAndEmit invocations in flight (a bag)
    init,                 \* the initialize() call
    lastEnded,            \* history: the invocation that returned last
    lastResolved,         \* history: result of the resolution completed last
    resolver,             \* one pass of findAntigravityProcess
    engine,               \* one group's sticky-red state and the steps applied
    sidebar,              \* the SidebarProvider
    calc,                 \* one call of a pure function: its argument and result
    service,              \* the language server once it is up for good
    tracker               \* the UsageTracker and the stored history

\* the QuotaService and everything else
quotaVars == <<processInfo, pollingTimer, armedTimers, disposed, consecutiveFailures,
               lastSnapshot, cycles, init, lastEnded, lastResolved>>
others == <<resolver, engine, sidebar, calc, tracker>>

vars == <<quotaVars, others, service>>

\* value of a part of the program that a specification leaves out
Idle == [op |-> "idle"]

TimerIds == 1..MaxTimers

\* An invocation of _fetchAndEmit: where it is suspended, the address of the
\* request it issued last, the error its catch clause holds, and what it has
\* done so far (events fired, resolver runs, status requests issued).
NewCycle ==
    [phase |-> "new", req |-> NoAddress, err |-> NoError,
     snaps |-> 0, errs |-> 0, resolves |-> 0, requests |-> 0]

\* The record of a returned invocation: what happened to it (how its first
\* request ended, what its resolver run found, how its retry ended: "na" when
\* there was none, "ok", "lost" for a connection failure, "failed" for another
\* failure) and what it did.
NoneEnded ==
    [first |-> "na", resolved |-> "na", retry |-> "na",
     snaps |-> 0, errs |-> 0, resolves |-> 0, requests |-> 0]

Ended(cyc, first, resolved, retry) ==
    [first |-> first, resolved |-> resolved, retry |-> retry,
     snaps |-> cyc.snaps, errs |-> cyc.errs, resolves |-> cyc.resolves,
     requests |-> cyc.requests]

Found(res) == IF res = NoInfo THEN "notfound" ELSE "found"
Failure(err) == IF err \in ConnectionLost THEN "lost" ELSE "failed"

QuotaInit ==
    /\ processInfo = NoInfo
    /\ pollingTimer = NoTimer
    /\ armedTimers = {}
    /\ disposed = FALSE
    /\ consecutiveFailures = 0
    /\ lastSnapshot = NoSnapshot
    /\ cycles = EmptyBag
    /\ init = [phase |-> "none", errs |-> 0, snaps |-> 0, resolves |-> 0, fired |-> NoError]
    /\ lastEnded = NoneEnded
    /\ lastResolved = NoInfo

Init ==
    /\ QuotaInit
    /\ service = Idle
    /\ tracker = Idle
    /\ resolver = Idle
    /\ engine = Idle
    /\ sidebar = Idle
    /\ calc = Idle

Bump(n) == IF n < MaxFailures THEN n + 1 ELSE MaxFailures

InFlight == BagCardinality(cycles)

\* ------------------------------------------------- _fetchAndEmit, by await
\* entry of _fetchAndEmit up to its first await: without a descriptor it calls
\* _reconnect, otherwise it issues the status request to the held descriptor
BeginCycle(info) ==
    IF info = NoInfo
    THEN [NewCycle EXCEPT !.phase = "connecting", !.resolves = 1]
    ELSE [NewCycle EXCEPT !.phase = "fetching", !.req = Address(info), !.requests = 1]

\* the try block ran to its end: fetchQuota resolved and the body parsed
FetchSucceeded(out) == out.kind = "resolved" /\ ~ParseThrows(out.body)

\* the value the catch clause receives
CaughtError(out) == IF out.kind = "rejected" THEN out.err ELSE ErrType

\* _onUpdate.fire(snapshot); the invocation returns
EmitSnapshot(cyc) == [cyc EXCEPT !.phase = "done", !.snaps = @ + 1]

\* _onError.fire(err); the invocation returns
EmitError(cyc) == [cyc EXCEPT !.phase = "done", !.errs = @ + 1]

\* catch (err): classify, then either await _reconnect() or fire the error
AfterFetchError(cyc, err) ==
    IF isConnectionError(err)
    THEN [cyc EXCEPT !.phase = "reconnecting", !.err = err, !.resolves = @ + 1]
    ELSE EmitError([cyc EXCEPT !.err = err])

\* after await _reconnect(): info is the _processInfo it has just stored
AfterReconnect_stale(cyc, info) ==
    IF info # NoInfo
    THEN [cyc EXCEPT !.phase = "retrying", !.requests = @ + 1]
    ELSE EmitError(cyc)

AfterReconnect_silent(cyc, info) ==
    IF info # NoInfo
    THEN [cyc EXCEPT !.phase = "retrying", !.req = Address(info),
                     !.requests = @ + 1]
    ELSE [cyc EXCEPT !.phase = "done"]

AfterReconnect(cyc, info) ==
    IF info # NoInfo
    THEN [cyc EXCEPT !.phase = "retrying", !.req = Address(info),
                     !.requests = @ + 1]
    ELSE EmitError(cyc)

\* the retry's try block ran to its end: fire the snapshot and return
AfterRetrySuccess_noReturn(cyc) == EmitError(EmitSnapshot(cyc))

AfterRetrySuccess(cyc) == EmitSnapshot(cyc)

\* catch (retryErr): logged, then the original error is fired
AfterRetryError_again(cyc) ==
    [cyc EXCEPT !.phase = "reconnecting", !.resolves = @ + 1]

AfterRetryError(cyc) == EmitError(cyc)

AfterConnect_fires(cyc) == EmitError(cyc)

\* the no-descriptor branch: await _reconnect(); return
AfterConnect(cyc) == [cyc EXCEPT !.phase = "done"]

\* activate() constructs the service, registers the commands and calls
\* initialize() in one synchronous stretch: no other call comes before it
Activated == init.phase # "none"

\* the synchronous start of an invocation
StartCycle ==
    /\ Activated
    /\ InFlight < MaxInFlight
    /\ cycles' = cycles (+) SetToBag({BeginCycle(processInfo)})
    /\ lastEnded' = lastEnded

\* invocation c continues as new, or has returned leaving the record ended
Continue(c, new, ended) ==
    IF new.phase = "done"
    THEN /\ cycles' = cycles (-) SetToBag({c})
         /\ lastEnded' = ended
    ELSE /\ cycles' = (cycles (-) SetToBag({c})) (+) SetToBag({new})
         /\ lastEnded' = lastEnded

Suspended(phase) == {c \in BagToSet(cycles) : c.phase = phase}

\* the first fetchQuota of invocation c settles with out
FetchSettles(c, out) ==
    /\ IF FetchSucceeded(out)
       THEN /\ consecutiveFailures' = 0
            /\ lastSnapshot' = SnapshotOf(out.body)
            /\ LET new == EmitSnapshot(c)
               IN  Continue(c, new, Ended(new, "ok", "na", "na"))
       ELSE /\ consecutiveFailures' =
                   Bump(IF out.kind = "resolved" THEN 0 ELSE consecutiveFailures)
            /\ lastSnapshot' = lastSnapshot
            /\ LET new == AfterFetchError(c, CaughtError(out))
               IN  Continue(c, new, Ended(new, Failure(CaughtError(out)), "na", "na"))
    /\ UNCHANGED <<processInfo, pollingTimer, armedTimers, disposed, init, lastResolved>>

FetchDone ==
    /\ \E c \in Suspended("fetching"), out \in FetchOutcomes : FetchSettles(c, out)
    /\ UNCHANGED <<others, service>>

\* _reconnect's findAntigravityProcess settles with res, after a
\* connection-class error of invocation c
ReconnectSettles(c, res) ==
    /\ processInfo' = res
    /\ lastResolved' = res
    /\ LET new == AfterReconnect(c, res)
       IN  Continue(c, new, Ended(new, Failure(c.err), Found(res), "na"))
    /\ UNCHANGED <<pollingTimer, armedTimers, disposed, consecutiveFailures,
                   lastSnapshot, init>>

ReconnectDone ==
    /\ \E c \in Suspended("reconnecting"), res \in ResolveResults :
        ReconnectSettles(c, res)
    /\ UNCHANGED <<others, service>>

\* _reconnect's findAntigravityProcess settles with res, in the no-descriptor
\* branch of invocation c
ConnectSettles(c, res) ==
    /\ processInfo' = res
    /\ lastResolved' = res
    /\ LET new == AfterConnect(c)
       IN  Continue(c, new, Ended(new, "na", Found(res), "na"))
    /\ UNCHANGED <<pollingTimer, armedTimers, disposed, consecutiveFailures,
                   lastSnapshot, init>>

ConnectDone ==
    /\ \E c \in Suspended("connecting"), res \in ResolveResults : ConnectSettles(c, res)
    /\ UNCHANGED <<others, service>>

\* the retried fetchQuota of invocation c settles with out
RetrySettles(c, out) ==
    /\ IF FetchSucceeded(out)
       THEN /\ consecutiveFailures' = 0
            /\ lastSnapshot' = SnapshotOf(out.body)
            /\ LET new == AfterRetrySuccess(c)
               IN  Continue(c, new, Ended(new, Failure(c.err), "found", "ok"))
       ELSE /\ consecutiveFailures' =
                   (IF out.kind = "resolved" THEN 0 ELSE consecutiveFailures)
            /\ lastSnapshot' = lastSnapshot
            /\ LET new == AfterRetryError(c)
               IN  Continue(c, new, Ended(new, Failure(c.err), "found",
                                          Failure(CaughtError(out))))
    /\ UNCHANGED <<processInfo, pollingTimer, armedTimers, disposed, init, lastResolved>>

RetryDone ==
    /\ \E c \in Suspended("retrying"), out \in FetchOutcomes : RetrySettles(c, out)
    /\ UNCHANGED <<others, service>>

\* ------------------------------------------------------------ public API
\* initialize() up to its await; activate() calls it once
InitializeCall ==
    /\ init.phase = "none"
    /\ ~disposed
    /\ init' = [init EXCEPT !.phase = "resolving", !.resolves = @ + 1]
    /\ UNCHANGED <<others, service>>
    /\ UNCHANGED <<processInfo, pollingTimer, armedTimers, disposed,
                   consecutiveFailures, lastSnapshot, cycles, lastEnded, lastResolved>>

\* the rest of initialize(): fire the error if the result is null, and return
AfterInitialize_silent(i, info) ==
    IF info = NoInfo
    THEN [i EXCEPT !.phase = "false"]
    ELSE [i EXCEPT !.phase = "true"]

AfterInitialize(i, info) ==
    IF info = NoInfo
    THEN [i EXCEPT !.phase = "false", !.errs = @ + 1, !.fired = ErrNotFound]
    ELSE [i EXCEPT !.phase = "true"]

InitializeDone ==
    /\ init.phase = "resolving"
    /\ \E res \in ResolveResults :
        /\ processInfo' = res
        /\ lastResolved' = res
        /\ init' = AfterInitialize(init, res)
    /\ UNCHANGED <<others, service>>
    /\ UNCHANGED <<pollingTimer, armedTimers, disposed, consecutiveFailures,
                   lastSnapshot, cycles, lastEnded>>

\* clearInterval(_pollingTimer)
Cleared(armed, timer) == IF timer # NoTimer THEN armed \ {timer} ELSE armed

\* setInterval hands out a handle that is not armed
NewTimer(armed) == CHOOSE t \in TimerIds \ armed : \A u \in TimerIds \ armed : t <= u

stopPolling ==
    /\ pollingTimer # NoTimer
    /\ armedTimers' = Cleared(armedTimers, pollingTimer)
    /\ pollingTimer' = NoTimer
    /\ UNCHANGED <<others, service>>
    /\ UNCHANGED <<processInfo, disposed, consecutiveFailures, lastSnapshot,
                   cycles, init, lastEnded, lastResolved>>

startPolling_keepsTimer ==
    /\ init.phase = "true"
    /\ ~disposed
    /\ Cardinality(armedTimers) < MaxTimers
    /\ StartCycle
    /\ pollingTimer' = NewTimer(armedTimers)
    /\ armedTimers' = armedTimers \cup {NewTimer(armedTimers)}
    /\ UNCHANGED <<others, service>>
    /\ UNCHANGED <<processInfo, disposed, consecutiveFailures, lastSnapshot,
                   init, lastResolved>>

\* stopPolling(); _fetchAndEmit(); _pollingTimer = setInterval(...).
\* activate() calls it when initialize() has returned true.
startPolling ==
    /\ init.phase = "true"
    /\ ~disposed
    /\ StartCycle
    /\ LET armed == Cleared(armedTimers, pollingTimer)
       IN  /\ pollingTimer' = NewTimer(armed)
           /\ armedTimers' = armed \cup {NewTimer(armed)}
    /\ UNCHANGED <<others, service>>
    /\ UNCHANGED <<processInfo, disposed, consecutiveFailures, lastSnapshot,
                   init, lastResolved>>

\* the setInterval callback
\* () => this._fetchAndEmit(), called by an armed timer
Tick ==
    /\ armedTimers # {}
    /\ StartCycle
    /\ UNCHANGED <<processInfo, pollingTimer, armedTimers, disposed,
                   consecutiveFailures, lastSnapshot, init, lastResolved>>

TimerTick_givesUp ==
    /\ consecutiveFailures < MaxFailures
    /\ Tick
    /\ UNCHANGED <<others, service>>

TimerTick == Tick /\ UNCHANGED <<others, service>>

refresh_restarts ==
    /\ StartCycle
    /\ LET armed == Cleared(armedTimers, pollingTimer)
       IN  /\ pollingTimer' = NewTimer(armed)
           /\ armedTimers' = armed \cup {NewTimer(armed)}
    /\ UNCHANGED <<others, service>>
    /\ UNCHANGED <<processInfo, disposed, consecutiveFailures, lastSnapshot,
                   init, lastResolved>>

\* refresh(): await this._fetchAndEmit()
refresh ==
    /\ StartCycle
    /\ UNCHANGED <<others, service>>
    /\ UNCHANGED <<processInfo, pollingTimer, armedTimers, disposed,
                   consecutiveFailures, lastSnapshot, init, lastResolved>>

\* dispose(): stopPolling() and the disposal of the emitters and the channel
dispose ==
    /\ Activated
    /\ ~disposed
    /\ disposed' = TRUE
    /\ armedTimers' = Cleared(armedTimers, pollingTimer)
    /\ pollingTimer' = NoTimer
    /\ UNCHANGED <<others, service>>
    /\ UNCHANGED <<processInfo, consecutiveFailures, lastSnapshot, cycles,
                   init, lastEnded, lastResolved>>

Next ==
    \/ InitializeCall
    \/ InitializeDone
    \/ startPolling
    \/ stopPolling
    \/ TimerTick
    \/ refresh
    \/ dispose
    \/ FetchDone
    \/ ReconnectDone
    \/ ConnectDone
    \/ RetryDone

Spec == Init /\ [][Next]_vars

TypeOK ==
    /\ processInfo \in ResolveResults
    /\ pollingTimer \in TimerIds \cup {NoTimer}
    /\ armedTimers \subseteq TimerIds
    /\ disposed \in BOOLEAN
    /\ consecutiveFailures \in 0..MaxFailures
    /\ InFlight <= MaxInFlight

\* ================================================================ claims
\* the invocation records the step puts in flight: a new invocation, or one
\* that has moved on to its next await
Arrived == {c \in BagToSet(cycles') : CopiesIn(c, cycles') > CopiesIn(c, cycles)}
\* the step starts an invocation / an invocation returns in the step
Starts == InFlight' > InFlight
Returns == InFlight' < InFlight

\* C1: no two fetch cycles of the service are in flight at the same time.
C1_SingleFlight == InFlight <= 1

\* C2: a cycle whose first request is lost (connection-class), whose
\* re-resolution succeeds and whose retry succeeds fires exactly one snapshot
\* and no error, and its retry is addressed to the descriptor just resolved.
C2_Case(e) == e.first = "lost" /\ e.resolved = "found" /\ e.retry = "ok"

C2_RetryEmitsOneSnapshot ==
    /\ [](C2_Case(lastEnded) => lastEnded.snaps = 1 /\ lastEnded.errs = 0)
    /\ [][\A c \in Arrived : c.phase = "retrying" =>
              /\ lastResolved' # NoInfo
              /\ c.req = Address(lastResolved')]_vars

C2_Witness == C2_Case(lastEnded) /\ lastEnded.snaps = 1 /\ lastEnded.requests = 2

\* C3: a cycle whose first request is lost and whose re-resolution fails fires
\* no snapshot and exactly one error and leaves the client without a
\* descriptor; a cycle started without a descriptor runs the resolver.
C3_Case(e) == e.first = "lost" /\ e.resolved = "notfound"

C3_FailedReconnect ==
    /\ [](C3_Case(lastEnded) => lastEnded.snaps = 0 /\ lastEnded.errs = 1)
    /\ [][Returns /\ C3_Case(lastEnded') => processInfo' = NoInfo]_vars
    /\ [][Starts /\ processInfo = NoInfo =>
              \A c \in Arrived :
                  c.phase = "connecting" /\ c.resolves = 1 /\ c.requests = 0]_vars

C3_Witness ==
    /\ C3_Case(lastEnded)
    /\ armedTimers # {}
    /\ \E c \in BagToSet(cycles) : c.phase = "connecting"

\* C4: every fetch cycle fires exactly one event, a snapshot or an error.
C4_OneEventPerCycle ==
    lastEnded.resolves + lastEnded.requests > 0 =>
        lastEnded.snaps + lastEnded.errs = 1

\* C5: a cycle whose request fails with a non-connection failure fires exactly
\* one error, runs no resolver, issues no retry and leaves the held descriptor
\* as it was.
C5_NonConnectionFailure ==
    /\ [](lastEnded.first = "failed" =>
              /\ lastEnded.errs = 1 /\ lastEnded.snaps = 0
              /\ lastEnded.resolves = 0 /\ lastEnded.requests = 1)
    /\ [][Returns /\ lastEnded'.first = "failed" =>
              processInfo' = processInfo]_vars

C5_Witness ==
    /\ lastEnded.first = "failed"
    /\ lastEnded.errs = 1
    /\ processInfo # NoInfo

\* C6: a cycle runs the resolver at most once and issues at most two status
\* requests; a failed retry, connection-class or not, ends the cycle.
C6_Bounded(c) == c.resolves <= 1 /\ c.requests <= 2

C6_OneResolutionOneRetry ==
    /\ \A c \in BagToSet(cycles) : C6_Bounded(c)
    /\ C6_Bounded(lastEnded)
    /\ lastEnded.retry \in {"lost", "failed"} =>
           lastEnded.resolves = 1 /\ lastEnded.requests = 2 /\ lastEnded.errs = 1

C6_Witness == lastEnded.retry = "lost" /\ lastEnded.requests = 2

\* C7: no cycle outcome cancels the polling timer, and while it is armed a
\* tick starts a new cycle whatever the number of consecutive failures.
C7_PollingContinues ==
    /\ [][cycles' # cycles /\ ~Starts =>
              UNCHANGED <<pollingTimer, armedTimers>>]_vars
    /\ [](armedTimers # {} /\ InFlight < MaxInFlight => ENABLED TimerTick)
    /\ [][TimerTick => InFlight' = InFlight + 1]_vars

C7_Witness ==
    /\ armedTimers # {}
    /\ consecutiveFailures = MaxFailures
    /\ lastEnded.errs = 1
    /\ InFlight > 0

\* C8: after dispose() no new fetch cycle is started, by a tick or by refresh().
C8_NoCycleAfterDispose == [][disposed => ~Starts]_vars

\* C9: initialize() runs the resolver once; on success it stores the
\* descriptor, returns true and fires nothing; on failure it holds no
\* descriptor, returns false and fires exactly one not-found error.
C9_Initialize ==
    /\ [](init.resolves <= 1 /\ init.snaps = 0)
    /\ [](init.phase = "true" =>
              init.resolves = 1 /\ init.errs = 0 /\ init.fired = NoError)
    /\ [](init.phase = "false" =>
              init.resolves = 1 /\ init.errs = 1 /\ init.fired = ErrNotFound)
    /\ [][init.phase = "resolving" /\ init'.phase # "resolving" =>
              /\ init'.phase = "true" => processInfo' \in ProcessInfos
              /\ init'.phase = "false" => processInfo' = NoInfo
              /\ init'.phase \in {"true", "false"}]_vars

C9_Witness == init.phase = "false" /\ init.errs = 1 /\ processInfo = NoInfo

\* C10: the client holds at most one descriptor, the one resolved last, and
\* every status request is addressed with its port and token when it starts.
C10_LiveDescriptor ==
    /\ [](processInfo \in ProcessInfos \cup {NoInfo} /\ processInfo = lastResolved)
    /\ [][\A c \in Arrived : c.phase \in {"fetching", "retrying"} =>
              /\ processInfo' \in ProcessInfos
              /\ c.req = Address(processInfo')]_vars

C10_Witness ==
    \E c, d \in BagToSet(cycles) :
        /\ c.phase = "retrying" /\ c.req = Address(processInfo)
        /\ d.phase = "fetching" /\ d.req # c.req

(***************************************************************************)
(* Model groups: classification, worst case and traffic light.            *)
(* Strings are sequences of one-character strings, so that lower-casing,  *)
(* trimming and substring search are computed rather than assumed.        *)
(***************************************************************************)

\* largest number of models in one snapshot
MaxModels == 2

\* an optional value x?: T is <<>> (undefined) or <<x>>
Undefined == <<>>
Some(x) == <<x>>

Upper == <<"A", "B", "C", "D", "E", "F", "G", "H", "I", "J", "K", "L", "M", "N", "O", "P", "Q", "R", "S", "T", "U", "V", "W", "X", "Y", "Z">>
Lower == <<"a", "b", "c", "d", "e", "f", "g", "h", "i", "j", "k", "l", "m", "n", "o", "p", "q", "r", "s", "t", "u", "v", "w", "x", "y", "z">>

\* String.prototype.toLowerCase
ToLowerCase(s) ==
    [i \in 1..Len(s) |->
        IF \E k \in 1..Len(Upper) : Upper[k] = s[i]
        THEN Lower[CHOOSE k \in 1..Len(Upper) : Upper[k] = s[i]]
        ELSE s[i]]

WhiteSpace == {" "}

RECURSIVE TrimStart(_)
TrimStart(s) ==
    IF s # <<>> /\ Head(s) \in WhiteSpace THEN TrimStart(Tail(s)) ELSE s

RECURSIVE TrimEnd(_)
TrimEnd(s) ==
    IF s # <<>> /\ s[Len(s)] \in WhiteSpace
    THEN TrimEnd(SubSeq(s, 1, Len(s) - 1))
    ELSE s

\* String.prototype.trim
Trim(s) == TrimEnd(TrimStart(s))

\* String.prototype.includes
StrIncludes(s, pattern) ==
    \E i \in 0..(Len(s) - Len(pattern)) : SubSeq(s, i + 1, i + Len(pattern)) = pattern

MODEL_GROUPS == <<
    [id |-> "premium",
     labelPatterns |-> << <<"o", "p", "u", "s">>,
                          <<"s", "o", "n", "n", "e", "t">>,
                          <<"g", "p", "t", "-", "o", "s", "s">>,
                          <<"g", "p", "t", " ", "o", "s", "s">>,
                          <<"1", "2", "0", "b">> >>],
    [id |-> "pro",
     labelPatterns |-> << <<"g", "e", "m", "i", "n", "i", " ", "3", " ", "p", "r", "o">>,
                          <<"g", "e", "m", "i", "n", "i", "-", "3", "-", "p", "r", "o">>,
                          <<"p", "r", "o", " ", "(", "h", "i", "g", "h">>,
                          <<"p", "r", "o", " ", "(", "l", "o", "w">> >>],
    [id |-> "flash",
     labelPatterns |-> << <<"f", "l", "a", "s", "h">>,
                          <<"g", "e", "m", "i", "n", "i", " ", "3", " ", "f", "l", "a", "s", "h">>,
                          <<"g", "e", "m", "i", "n", "i", "-", "3", "-", "f", "l", "a", "s", "h">> >>] >>

\* the inner loop: some pattern of the group occurs in the lower-cased label
GroupMatches(group, lower) ==
    \E k \in 1..Len(group.labelPatterns) :
        StrIncludes(lower, ToLowerCase(group.labelPatterns[k]))

\* the outer loop from group g on: the first group that matches
RECURSIVE FirstMatch(_, _)
FirstMatch(lower, g) ==
    IF g > Len(MODEL_GROUPS) THEN Undefined
    ELSE IF GroupMatches(MODEL_GROUPS[g], lower) THEN Some(MODEL_GROUPS[g])
    ELSE FirstMatch(lower, g + 1)

getGroupForModel_last(label) ==
    LET lower == Trim(ToLowerCase(label))
        matching == {g \in 1..Len(MODEL_GROUPS) : GroupMatches(MODEL_GROUPS[g], lower)}
    IN  IF matching = {} THEN Undefined
        ELSE Some(MODEL_GROUPS[CHOOSE g \in matching : \A h \in matching : h <= g])

getGroupForModel(label) == FirstMatch(Trim(ToLowerCase(label)), 1)

\* grouped.has(groupId)
MapHas(grouped, groupId) == \E i \in 1..Len(grouped) : grouped[i].id = groupId

\* grouped.get(groupId)!.push(model), after grouped.set(groupId, []) if new;
\* a Map keeps its keys in insertion order
MapPush(grouped, groupId, model) ==
    IF MapHas(grouped, groupId)
    THEN [i \in 1..Len(grouped) |->
            IF grouped[i].id = groupId
            THEN [grouped[i] EXCEPT !.members = Append(@, model)]
            ELSE grouped[i]]
    ELSE Append(grouped, [id |-> groupId, members |-> <<model>>])

RECURSIVE GroupLoop(_, _, _)
GroupLoop(models, n, grouped) ==
    IF n > Len(models) THEN grouped
    ELSE LET group == getGroupForModel(models[n].label)
             groupId == IF group = Undefined THEN "other" ELSE group[1].id
         IN  GroupLoop(models, n + 1, MapPush(grouped, groupId, models[n]))

groupModels(models) == GroupLoop(models, 1, <<>>)

\* let worst = 100
WorstDefault == 100

RECURSIVE WorstLoop(_, _, _)
WorstLoop(models, n, worst) ==
    IF n > Len(models) THEN worst
    ELSE LET m == models[n]
         IN  IF m.remainingPercentage # Undefined /\ m.remainingPercentage[1] < worst
             THEN WorstLoop(models, n + 1, m.remainingPercentage[1])
             ELSE WorstLoop(models, n + 1, worst)

getWorstRemainingInGroup_last(models) ==
    LET known == {n \in 1..Len(models) : models[n].remainingPercentage # Undefined}
    IN  IF known = {} THEN WorstDefault
        ELSE models[CHOOSE n \in known : \A k \in known : k <= n].remainingPercentage[1]

getWorstRemainingInGroup(models) == WorstLoop(models, 1, WorstDefault)

DefaultThresholds == [yellow |-> 40, red |-> 20]

getTrafficLight_below(remainingPct, thresholds) ==
    LET t == IF thresholds = Undefined THEN DefaultThresholds ELSE thresholds[1]
    IN  IF remainingPct < t.red THEN "red"
        ELSE IF remainingPct < t.yellow THEN "yellow"
        ELSE "green"

getTrafficLight(remainingPct, thresholds) ==
    LET t == IF thresholds = Undefined THEN DefaultThresholds ELSE thresholds[1]
    IN  IF remainingPct <= t.red THEN "red"
        ELSE IF remainingPct <= t.yellow THEN "yellow"
        ELSE "green"

\* labels a server may send
Labels == { <<"G", "e", "m", "i", "n", "i", " ", "3", " ", "P", "r", "o", " ", "(", "H", "i", "g", "h", ")">>,
            <<"C", "l", "a", "u", "d", "e", " ", "O", "p", "u", "s", " ", "4">>,
            <<"G", "e", "m", "i", "n", "i", " ", "3", " ", "F", "l", "a", "s", "h">>,
            <<" ", "G", "P", "T", "-", "O", "S", "S", " ", "F", "l", "a", "s", "h", " ">>,
            <<"F", "l", "a", "s", "h", " ", "P", "r", "o", " ", "(", "L", "o", "w", ")">>,
            <<"L", "l", "a", "m", "a">> }

\* remainingPercentage: remainingFraction * 100, or undefined
Percentages == {Undefined, Some(0), Some(50), Some(100), Some(120)}

ModelsOf(labels, percentages) ==
    {[label |-> l, remainingPercentage |-> p] : l \in labels, p \in percentages}

\* the lists of at most MaxModels members of a set
ListsOf(S) == UNION {[1..n -> S] : n \in 0..MaxModels}

ThresholdValues == {10, 20, 40, 60}
ThresholdArgs ==
    {Undefined} \cup {Some([yellow |-> y, red |-> r]) : y, r \in ThresholdValues}
PctArgs == {0, 10, 19, 20, 21, 39, 40, 41, 60, 100}

\* a call that has not returned yet
Call(op, arg) == [op |-> op, arg |-> arg, returned |-> FALSE]

Calls ==
    {Call("getTrafficLight", [remainingPct |-> p, thresholds |-> t]) :
        p \in PctArgs, t \in ThresholdArgs}
    \cup {Call("groupModels", ms) :
            ms \in ListsOf(ModelsOf(Labels, {Undefined, Some(50)}))}
    \cup {Call("getWorstRemainingInGroup", ms) :
            ms \in ListsOf(ModelsOf({<<"L", "l", "a", "m", "a">>}, Percentages))}

Return(out) == calc' = [op |-> calc.op, arg |-> calc.arg, returned |-> TRUE, out |-> out]

CallGetTrafficLight ==
    /\ calc.op = "getTrafficLight" /\ ~calc.returned
    /\ Return(getTrafficLight(calc.arg.remainingPct, calc.arg.thresholds))
    /\ UNCHANGED <<quotaVars, service, tracker, resolver, engine, sidebar>>

CallGroupModels ==
    /\ calc.op = "groupModels" /\ ~calc.returned
    /\ Return(groupModels(calc.arg))
    /\ UNCHANGED <<quotaVars, service, tracker, resolver, engine, sidebar>>

CallGetWorstRemainingInGroup ==
    /\ calc.op = "getWorstRemainingInGroup" /\ ~calc.returned
    /\ Return(getWorstRemainingInGroup(calc.arg))
    /\ UNCHANGED <<quotaVars, service, tracker, resolver, engine, sidebar>>

CalcInit ==
    /\ QuotaInit
    /\ service = Idle
    /\ tracker = Idle
    /\ resolver = Idle
    /\ engine = Idle
    /\ sidebar = Idle
    /\ calc \in Calls

CalcNext ==
    \/ CallGetTrafficLight
    \/ CallGroupModels
    \/ CallGetWorstRemainingInGroup

CalcSpec == CalcInit /\ [][CalcNext]_vars

(***************************************************************************)
(* Claims about the model groups                                           *)
(***************************************************************************)

TrafficLightReturned == calc.op = "getTrafficLight" /\ calc.returned

\* the thresholds a call of getTrafficLight is to use: those given, or 40 and 20
C18_Thresholds == IF calc.arg.thresholds = Undefined THEN [yellow |-> 40, red |-> 20]
                  ELSE calc.arg.thresholds[1]

GroupModelsReturned == calc.op = "groupModels" /\ calc.returned

\* pattern occurs in label as a substring, letters compared without case
C19_Occurs(pattern, label) ==
    \E i \in 0..(Len(label) - Len(pattern)) :
        \A j \in 1..Len(pattern) :
            ToLowerCase(<<label[i + j]>>) = ToLowerCase(<<pattern[j]>>)

C19_Matching(label) ==
    {g \in 1..Len(MODEL_GROUPS) :
        \E k \in 1..Len(MODEL_GROUPS[g].labelPatterns) :
            C19_Occurs(MODEL_GROUPS[g].labelPatterns[k], label)}

\* the first matching group in declared order, or the bucket 'other'
C19_Bucket(label) ==
    IF C19_Matching(label) = {} THEN "other"
    ELSE MODEL_GROUPS[CHOOSE g \in C19_Matching(label) :
                          \A h \in C19_Matching(label) : g <= h].id

C19_Members(id) ==
    LET InBucket(m) == C19_Bucket(m.label) = id
    IN  SelectSeq(calc.arg, InBucket)

\* C19: classification is total and first-match: the groups are declared in the
\* order premium, pro, flash; groupModels puts every item in exactly one
\* bucket, the first group in that order with a pattern occurring in the
\* item's label without regard to case, or 'other' when no group matches; so
\* 'Gemini 3 Pro (High)' is pro, and an item matching two groups is only in
\* the earlier one.
C19_FirstMatch ==
    /\ [g \in 1..Len(MODEL_GROUPS) |-> MODEL_GROUPS[g].id] = <<"premium", "pro", "flash">>
    /\ GroupModelsReturned =>
        /\ \A i, j \in 1..Len(calc.out) : calc.out[i].id = calc.out[j].id => i = j
        /\ \A i \in 1..Len(calc.out) :
            /\ calc.out[i].members # <<>>
            /\ calc.out[i].members = C19_Members(calc.out[i].id)
        /\ \A n \in 1..Len(calc.arg) :
            /\ \E i \in 1..Len(calc.out) : calc.out[i].id = C19_Bucket(calc.arg[n].label)
            /\ calc.arg[n].label = <<"G", "e", "m", "i", "n", "i", " ", "3", " ", "P", "r", "o", " ", "(", "H", "i", "g", "h", ")">> =>
                  C19_Bucket(calc.arg[n].label) = "pro"

\* an item matching premium and flash was classified with 'Gemini 3 Pro (High)'
C19_Witness ==
    /\ GroupModelsReturned
    /\ Len(calc.arg) = 2
    /\ calc.arg[1].label = <<" ", "G", "P", "T", "-", "O", "S", "S", " ", "F", "l", "a", "s", "h", " ">>
    /\ Cardinality(C19_Matching(calc.arg[1].label)) = 2
    /\ calc.arg[2].label = <<"G", "e", "m", "i", "n", "i", " ", "3", " ", "P", "r", "o", " ", "(", "H", "i", "g", "h", ")">>
    /\ Len(calc.out) = 2
    /\ calc.out[1].id = "premium"
    /\ calc.out[2].id = "pro"

WorstReturned == calc.op = "getWorstRemainingInGroup" /\ calc.returned

\* the percentages of the members that have one
C20_Known ==
    {calc.arg[n].remainingPercentage[1] :
        n \in {k \in 1..Len(calc.arg) : calc.arg[k].remainingPercentage # Undefined}}

\* C20: for a member list whose known percentages lie in 0..100 (fractions in
\* [0,1]), getWorstRemainingInGroup returns the minimum over the members with
\* a known percentage, ignoring the others, and 100 when the list is empty or
\* no member has a known percentage.
C20_WorstRemaining ==
    WorstReturned /\ C20_Known \subseteq 0..100 =>
        IF C20_Known = {} THEN calc.out = 100
        ELSE /\ calc.out \in C20_Known
             /\ \A p \in C20_Known : calc.out <= p

\* the minimum came first and a member with no percentage was ignored
C20_Witness ==
    /\ WorstReturned
    /\ Len(calc.arg) = 2
    /\ calc.arg[1].remainingPercentage = Some(0)
    /\ calc.arg[2].remainingPercentage = Some(50)
    /\ calc.out = 0

(***************************************************************************)
(* The sticky-red logic of SidebarProvider._sendUpdate, for one group.    *)
(***************************************************************************)

\* number of first steps of a group whose maximum reset times are remembered
MaxSteps == 3

HourMs == 60 * 60 * 1000
FIVE_HOURS_MS == 5 * 60 * 60 * 1000
FOUR_HOURS_MS == 4 * 60 * 60 * 1000

\* state = { active: false, dippedBelow4h: false, conditionAMet: false }
NewStickyState == [active |-> FALSE, dippedBelow4h |-> FALSE, conditionAMet |-> FALSE]

\* 1. the maximum of timeUntilReset over the group, from 0
RECURSIVE MaxResetLoop(_, _, _)
MaxResetLoop(models, n, maxResetMs) ==
    IF n > Len(models) THEN maxResetMs
    ELSE IF models[n].timeUntilReset > maxResetMs
         THEN MaxResetLoop(models, n + 1, models[n].timeUntilReset)
         ELSE MaxResetLoop(models, n + 1, maxResetMs)

Activation_keepsTrackers(state, maxResetMs) ==
    IF maxResetMs > FIVE_HOURS_MS THEN [state EXCEPT !.active = TRUE] ELSE state

\* 3. activation
Activation(state, maxResetMs) ==
    IF maxResetMs > FIVE_HOURS_MS
    THEN [active |-> TRUE, dippedBelow4h |-> FALSE, conditionAMet |-> FALSE]
    ELSE state

DipBelow_always(state, maxResetMs) ==
    IF maxResetMs > 0 /\ maxResetMs < FOUR_HOURS_MS
    THEN [state EXCEPT !.dippedBelow4h = TRUE]
    ELSE state

\* 4. part 1: dip below 4h
DipBelow(state, maxResetMs) ==
    IF state.active /\ maxResetMs > 0 /\ maxResetMs < FOUR_HOURS_MS
    THEN [state EXCEPT !.dippedBelow4h = TRUE]
    ELSE state

RecoverAbove_noDip(state, maxResetMs) ==
    IF state.active /\ maxResetMs > FOUR_HOURS_MS
    THEN [state EXCEPT !.conditionAMet = TRUE]
    ELSE state

RecoverAbove_noLatch(state, maxResetMs) ==
    IF state.active
    THEN [state EXCEPT !.conditionAMet = state.dippedBelow4h /\ maxResetMs > FOUR_HOURS_MS]
    ELSE state

\* 4. part 2: recover above 4h
RecoverAbove(state, maxResetMs) ==
    IF state.active /\ state.dippedBelow4h /\ maxResetMs > FOUR_HOURS_MS
    THEN [state EXCEPT !.conditionAMet = TRUE]
    ELSE state

ResetCheck_keepsTrackers(state, worstPct) ==
    IF state.active /\ state.conditionAMet /\ worstPct >= 100
    THEN [state EXCEPT !.active = FALSE]
    ELSE state

\* 4. reset check
ResetCheck(state, worstPct) ==
    IF state.active /\ state.conditionAMet /\ worstPct >= 100
    THEN [active |-> FALSE, dippedBelow4h |-> FALSE, conditionAMet |-> FALSE]
    ELSE state

StickyRed_resetFirst(state, maxResetMs, worstPct) ==
    RecoverAbove(DipBelow(ResetCheck(Activation(state, maxResetMs), worstPct),
                          maxResetMs),
                 maxResetMs)

\* lines 356-385 in order
StickyRed(state, maxResetMs, worstPct) ==
    ResetCheck(RecoverAbove(DipBelow(Activation(state, maxResetMs), maxResetMs),
                            maxResetMs),
               worstPct)

\* timeUntilReset of a member: resetTime - now
ResetTimes == {0, 3 * HourMs, 4 * HourMs, 4 * HourMs + HourMs \div 2, 5 * HourMs, 6 * HourMs}

\* the members a group may have in a snapshot
GroupMembers ==
    ListsOf({[timeUntilReset |-> t, remainingPercentage |-> p] :
                t \in ResetTimes, p \in {Some(50), Some(100)}})

\* the group's sticky state before its first step, and nothing remembered
EngineStart ==
    [op |-> "stickyRed", state |-> NewStickyState, steps |-> 0, resets |-> <<>>,
     maxResetMs |-> 0, worstPct |-> 0, isLongReset |-> FALSE, again |-> FALSE]

\* the body of the callback of MODEL_GROUPS.map for one group
GroupStep(models) ==
    LET worstPct == getWorstRemainingInGroup(models)
        maxResetMs == MaxResetLoop(models, 1, 0)
        state == StickyRed(engine.state, maxResetMs, worstPct)
    IN  engine' = [op |-> "stickyRed",
                   state |-> state,
                   steps |-> IF engine.steps < MaxSteps
                             THEN engine.steps + 1
                             ELSE MaxSteps + 1,
                   resets |-> IF engine.steps < MaxSteps
                              THEN Append(engine.resets, maxResetMs)
                              ELSE <<>>,
                   maxResetMs |-> maxResetMs,
                   worstPct |-> worstPct,
                   isLongReset |-> state.active,
                   again |-> /\ engine.steps >= 1
                             /\ engine.steps <= MaxSteps
                             /\ maxResetMs = engine.maxResetMs
                             /\ worstPct = engine.worstPct]

StepGroup ==
    /\ \E models \in GroupMembers : GroupStep(models)
    /\ UNCHANGED <<quotaVars, service, tracker, resolver, sidebar, calc>>

EngineInit ==
    /\ QuotaInit
    /\ service = Idle
    /\ tracker = Idle
    /\ resolver = Idle
    /\ engine = EngineStart
    /\ sidebar = Idle
    /\ calc = Idle

EngineNext == StepGroup

EngineSpec == EngineInit /\ [][EngineNext]_vars

(***************************************************************************)
(* Claims about the sticky-red logic                                       *)
(***************************************************************************)

Stepped == engine' # engine

\* C13: from the initial state, the steps with maxReset = 6h, 3h, 4h30m, the
\* last with pct = 100, leave active = false, and the steps with
\* maxReset = 6h, 3h, the last with pct = 100, leave active = true, whatever
\* the pct of the earlier steps.
C13_RoundTrip ==
    /\ (/\ engine.resets = <<6 * HourMs, 3 * HourMs, 4 * HourMs + HourMs \div 2>>
        /\ engine.worstPct = 100) => ~engine.state.active
    /\ (/\ engine.resets = <<6 * HourMs, 3 * HourMs>>
        /\ engine.worstPct = 100) => engine.state.active

\* the three steps of the round trip were taken
C13_Witness ==
    /\ engine.steps = 3
    /\ engine.resets = <<6 * HourMs, 3 * HourMs, 4 * HourMs + HourMs \div 2>>
    /\ engine.worstPct = 100
    /\ engine.state = NewStickyState

\* C14: once active = false, a step with maxReset <= 5h, at any pct, leaves
\* active, dippedBelow4h and conditionAMet unchanged.
C14_InactiveUnchanged ==
    [][Stepped /\ ~engine.state.active /\ engine'.maxResetMs <= 5 * HourMs =>
          engine'.state = engine.state]_vars

\* two steps with maxReset <= 5h were taken from an inactive state
C14_Witness ==
    /\ engine.resets = <<3 * HourMs, 5 * HourMs>>
    /\ engine.worstPct = 100
    /\ engine.state = NewStickyState

\* the full-reset rule fired in this step
FullReset == engine'.worstPct >= 100 /\ engine'.state = NewStickyState

\* a fresh activation happened in this step
FreshActivation ==
    /\ engine'.maxResetMs > 5 * HourMs
    /\ engine'.state = [active |-> TRUE, dippedBelow4h |-> FALSE, conditionAMet |-> FALSE]

\* C15 as stated: once set, conditionAMet stays true until the full-reset rule
\* (conditionAMet and pct >= 100) fires; nothing else clears it.
C15_LatchedUntilFullReset ==
    [][engine.state.conditionAMet /\ ~engine'.state.conditionAMet => FullReset]_vars

\* C15 as amended: once set, conditionAMet stays true until the full-reset rule
\* fires or a step with maxReset > 5h activates the group afresh; nothing else
\* clears it.
C15_Latched ==
    [][engine.state.conditionAMet /\ ~engine'.state.conditionAMet =>
          FullReset \/ FreshActivation]_vars

\* conditionAMet is still set after a step below 4h, which cannot have set it
C15_Witness ==
    /\ engine.state.conditionAMet
    /\ engine.maxResetMs = 3 * HourMs
    /\ engine.worstPct = 50

\* C16: after a step with maxReset > 5h the state is active = true,
\* dippedBelow4h = false, conditionAMet = false, whatever the prior state and
\* pct, and the isLongReset exposed for the step equals active (true).
C16_Activation ==
    engine.steps > 0 /\ engine.maxResetMs > 5 * HourMs =>
        /\ engine.state = [active |-> TRUE, dippedBelow4h |-> FALSE, conditionAMet |-> FALSE]
        /\ engine.isLongReset = engine.state.active
        /\ engine.isLongReset

\* a group that had dipped below 4h was activated afresh, at pct = 100
C16_Witness ==
    /\ engine.resets = <<6 * HourMs, 3 * HourMs, 6 * HourMs>>
    /\ engine.worstPct = 100
    /\ engine.state.active /\ ~engine.state.dippedBelow4h
    /\ engine.isLongReset

(***************************************************************************)
(* The SidebarProvider: the view, the last snapshot and the messages of   *)
(* the webview, for one group.  _toggleGroup and _updateThresholds await  *)
(* config.update between writing the configuration and re-sending; no     *)
(* other handler reads what they wrote, so each is one step, taken when   *)
(* its re-send runs.                                                      *)
(***************************************************************************)

\* number of snapshots the service emits
MaxSnapshots == 2
\* number of updates the provider sends
MaxSends == 3

\* JavaScript values, each type with a field of its own
JsUndefined == [type |-> "undefined"]
JsNull == [type |-> "null"]
JsNaN == [type |-> "NaN"]
JsBool(b) == [type |-> "boolean", bool |-> b]
JsNum(n) == [type |-> "number", num |-> n]
JsStr(s) == [type |-> "string", str |-> s]

\* ToBoolean: if (v), !v
Truthy(v) ==
    CASE v.type \in {"undefined", "null", "NaN"} -> FALSE
      [] v.type = "boolean" -> v.bool
      [] v.type = "number" -> v.num # 0
      [] v.type = "string" -> v.str # ""
      [] OTHER -> TRUE

\* v ?? d
Coalesce(v, d) == IF v.type \in {"undefined", "null"} THEN d ELSE v

\* an entry { enabled, limits } of the setting agmonitor.modelGroups
GroupConf(enabled, limits) == [type |-> "object", enabled |-> enabled, limits |-> limits]
Limits(yellow, red) == [type |-> "object", yellow |-> yellow, red |-> red]

\* the group's entry of the setting when the extension starts, if any
GroupConfs ==
    {JsUndefined, GroupConf(JsUndefined, JsUndefined), GroupConf(JsBool(TRUE), JsUndefined)}

\* groupConf.limits?.yellow and groupConf.limits?.red
LimitOf(groupConf, name) ==
    IF groupConf.limits.type # "object" THEN JsUndefined
    ELSE IF name = "yellow" THEN groupConf.limits.yellow
    ELSE groupConf.limits.red

\* getGroupConfig(groupId), groupConf being groups[groupId]
getGroupConfig(groupConf) ==
    IF Truthy(groupConf)
    THEN [enabled |-> groupConf.enabled # JsBool(FALSE),
          limits |-> [yellow |-> Coalesce(LimitOf(groupConf, "yellow"), JsNum(40)),
                      red |-> Coalesce(LimitOf(groupConf, "red"), JsNum(20))]]
    ELSE [enabled |-> TRUE, limits |-> [yellow |-> JsNum(40), red |-> JsNum(20)]]

\* the members of the group in an emitted snapshot
SnapshotMembers ==
    {<<[timeUntilReset |-> t, remainingPercentage |-> p]>> :
        t \in {3 * HourMs, 6 * HourMs}, p \in {Some(10), Some(100)}}

SidebarStart(groups) ==
    [op |-> "sidebar", view |-> "none", lastSnapshot |-> Undefined, groups |-> groups,
     emitted |-> 0, applied |-> <<>>, posted |-> Undefined]

CanSend == Len(sidebar.applied) < MaxSends

\* _sendUpdate(snapshot), called in the provider state sb
SendUpdate(snapshot, sb) ==
    IF sb.view = "none"
    THEN /\ sidebar' = sb
         /\ UNCHANGED engine
    ELSE /\ GroupStep(snapshot.members)
         /\ LET config == getGroupConfig(sb.groups)
                worstPct == getWorstRemainingInGroup(snapshot.members)
            IN  sidebar' = [sb EXCEPT
                    !.applied = Append(@, snapshot.seq),
                    !.posted = Some([seq |-> snapshot.seq,
                                     enabled |-> config.enabled,
                                     light |-> getTrafficLight(worstPct,
                                                  Some([yellow |-> config.limits.yellow.num,
                                                        red |-> config.limits.red.num])),
                                     isLongReset |-> engine'.isLongReset])]

\* if (this._lastSnapshot) { this._sendUpdate(this._lastSnapshot); }
ResendLast(sb) ==
    IF sb.lastSnapshot # Undefined
    THEN SendUpdate(sb.lastSnapshot[1], sb)
    ELSE sidebar' = sb /\ UNCHANGED engine

resolveWebviewView ==
    /\ sidebar.view = "none"
    /\ sidebar' = [sidebar EXCEPT !.view = "visible"]
    /\ UNCHANGED <<quotaVars, service, tracker, resolver, engine, calc>>

\* the user hides or shows the view
ChangeVisibility ==
    /\ sidebar.view # "none"
    /\ sidebar' = [sidebar EXCEPT !.view = IF @ = "visible" THEN "hidden" ELSE "visible"]
    /\ UNCHANGED <<quotaVars, service, tracker, resolver, engine, calc>>

\* the onUpdate listener of activate: a snapshot is emitted
pushUpdate ==
    /\ sidebar.emitted < MaxSnapshots
    /\ CanSend
    /\ \E members \in SnapshotMembers :
        LET snapshot == [seq |-> sidebar.emitted + 1, members |-> members]
            sb == [sidebar EXCEPT !.emitted = @ + 1, !.lastSnapshot = Some(snapshot)]
        IN  IF sb.view = "visible"
            THEN SendUpdate(snapshot, sb)
            ELSE sidebar' = sb /\ UNCHANGED engine
    /\ UNCHANGED <<quotaVars, service, tracker, resolver, calc>>

\* message 'ready'
Ready ==
    /\ sidebar.view = "visible"
    /\ CanSend
    /\ ResendLast(sidebar)
    /\ UNCHANGED <<quotaVars, service, tracker, resolver, calc>>

\* if (groups[groupId]) groups[groupId].enabled = !groups[groupId].enabled
Toggled(groupConf) ==
    IF Truthy(groupConf)
    THEN [groupConf EXCEPT !.enabled = JsBool(~Truthy(@))]
    ELSE groupConf

\* message 'toggleGroup'
toggleGroup ==
    /\ sidebar.view = "visible"
    /\ CanSend
    /\ ResendLast([sidebar EXCEPT !.groups = Toggled(@)])
    /\ UNCHANGED <<quotaVars, service, tracker, resolver, calc>>

\* the command agmonitor.toggleModelGroup, the group picked or not:
\* if (groups[g.id]) groups[g.id].enabled = selected.some(...)
PickGroups(picked) ==
    /\ sidebar' = [sidebar EXCEPT !.groups =
            IF Truthy(@) THEN [@ EXCEPT !.enabled = JsBool(picked)] ELSE @]
    /\ UNCHANGED <<quotaVars, service, tracker, resolver, engine, calc>>

toggleModelGroup == \E picked \in BOOLEAN : PickGroups(picked)

\* message 'updateThresholds'
updateThresholds ==
    /\ sidebar.view = "visible"
    /\ CanSend
    /\ \E yellow, red \in {20, 40} :
        ResendLast([sidebar EXCEPT !.groups =
            IF Truthy(@)
            THEN [@ EXCEPT !.limits = Limits(JsNum(yellow), JsNum(red))]
            ELSE @])
    /\ UNCHANGED <<quotaVars, service, tracker, resolver, calc>>

SidebarInit ==
    /\ QuotaInit
    /\ service = Idle
    /\ tracker = Idle
    /\ resolver = Idle
    /\ engine = EngineStart
    /\ \E groups \in GroupConfs : sidebar = SidebarStart(groups)
    /\ calc = Idle

SidebarNext ==
    \/ resolveWebviewView
    \/ ChangeVisibility
    \/ pushUpdate
    \/ Ready
    \/ toggleGroup
    \/ updateThresholds
    \/ toggleModelGroup

SidebarSpec == SidebarInit /\ [][SidebarNext]_vars

(***************************************************************************)
(* Claims about the SidebarProvider                                        *)
(***************************************************************************)

\* C17: the sticky-red step is applied once for each snapshot the service
\* emits, in emission order, also for snapshots emitted while the view is not
\* yet created or is hidden: the snapshots the step was applied to are 1, 2, ...
\* up to the number emitted.
C17_StepPerSnapshot ==
    sidebar.applied = [i \in 1..sidebar.emitted |-> i]

(***************************************************************************)
(* findAntigravityProcess: one resolution pass.  A command line is the    *)
(* sequence of its words; every await of the function is one step.        *)
(***************************************************************************)

\* largest number of candidate processes found
MaxCandidates == 2
\* largest number of port entries printed for one process
MaxPorts == 2

\* words that match [a-f0-9\-]+
HexWords == {"aaa-1", "bbb-2"}
\* words that match \d+
DigitWords == {"5001"}

\* parseInt(word, 10)
ParseInt(word) == CASE word = "5001" -> 5001

CmdLines ==
    { <<"language_server", "--extension_server_port", "5001", "--csrf_token", "aaa-1">>,
      <<"language_server", "--csrf_token", "bbb-2">>,
      <<"language_server", "--app_data_dir", "antigravity">> }

\* cmdLine.match(flag[=\s]+(value)): the value of the leftmost match, if any
Match(cmdLine, flag, values) ==
    LET at == {k \in 1..(Len(cmdLine) - 1) : cmdLine[k] = flag /\ cmdLine[k + 1] \in values}
    IN  IF at = {} THEN Undefined
        ELSE Some(cmdLine[(CHOOSE k \in at : \A h \in at : k <= h) + 1])

portMatch(cmdLine) == Match(cmdLine, "--extension_server_port", DigitWords)
tokenMatch_lax(cmdLine) ==
    IF Match(cmdLine, "--csrf_token", HexWords) # Undefined
    THEN Match(cmdLine, "--csrf_token", HexWords)
    ELSE Some("")

tokenMatch(cmdLine) == Match(cmdLine, "--csrf_token", HexWords)

\* the pid of the n-th process found
PidOf(n) == 100 * n

\* what findProcessesWindows or findProcessesUnix may return; a failed
\* lookup returns the empty list
CandidateLists ==
    UNION {{[n \in 1..len |-> [pid |-> PidOf(n), cmdLine |-> cl[n]]] :
                cl \in [1..len -> CmdLines]} : len \in 0..MaxCandidates}

ListeningPorts == {5001, 5002}

\* the port entries in the output of the command, in the order printed
RawPorts == UNION {[1..n -> ListeningPorts] : n \in 0..MaxPorts}

\* the ways ports are read: Get-NetTCPConnection, netstat, lsof or ss
PortPaths == {"powershell", "netstat", "unix"}

\* if (!ports.includes(p)) ports.push(p), over the entries in order
RECURSIVE PushNew(_, _)
PushNew(raw, ports) ==
    IF raw = <<>> THEN ports
    ELSE IF \E k \in 1..Len(ports) : ports[k] = Head(raw)
         THEN PushNew(Tail(raw), ports)
         ELSE PushNew(Tail(raw), Append(ports, Head(raw)))

\* insert p into an ascending list, after the entries equal to it
RECURSIVE Insert(_, _)
Insert(sorted, p) ==
    IF sorted = <<>> THEN <<p>>
    ELSE IF p < Head(sorted) THEN <<p>> \o sorted
    ELSE <<Head(sorted)>> \o Insert(Tail(sorted), p)

SortAscending_unsorted(ports) == ports

\* ports.sort((a, b) => a - b)
RECURSIVE SortAscending(_)
SortAscending(ports) ==
    IF ports = <<>> THEN <<>>
    ELSE Insert(SortAscending(SubSeq(ports, 1, Len(ports) - 1)), ports[Len(ports)])

\* getListeningPortsWindows and getListeningPortsUnix
getListeningPorts(path, raw) ==
    IF path = "powershell" THEN SortAscending(raw)
    ELSE SortAscending(PushNew(raw, <<>>))

Descriptor_first(candidates, i, token, connectPort) ==
    LET first == candidates[1]
    IN  [pid |-> first.pid,
         extensionPort |-> IF portMatch(first.cmdLine) # Undefined
                           THEN ParseInt(portMatch(first.cmdLine)[1]) ELSE 0,
         connectPort |-> connectPort,
         csrfToken |-> IF tokenMatch(first.cmdLine) # Undefined
                       THEN tokenMatch(first.cmdLine)[1] ELSE token]

\* return { pid, extensionPort, connectPort, csrfToken }
Descriptor(candidates, i, token, connectPort) ==
    [pid |-> candidates[i].pid,
     extensionPort |-> IF portMatch(candidates[i].cmdLine) # Undefined
                       THEN ParseInt(portMatch(candidates[i].cmdLine)[1]) ELSE 0,
     connectPort |-> connectPort,
     csrfToken |-> token]

ResolverStart ==
    [op |-> "findAntigravityProcess", pc |-> "start", candidates |-> <<>>, i |-> 0,
     raw |-> <<>>, ports |-> <<>>, j |-> 0, listed |-> <<>>, probes |-> <<>>,
     result |-> Undefined]

\* return value: null, or a descriptor
Returned(r, value) == [r EXCEPT !.pc = "done", !.result = value]

\* the for loop over the candidates goes on from candidate i, or ends
LoopFrom(r, i) ==
    IF i > Len(r.candidates) THEN Returned(r, Undefined)
    ELSE [r EXCEPT !.pc = "candidate", !.i = i]

\* await findProcessesWindows(log) or findProcessesUnix(log) returned
findProcesses ==
    /\ resolver.pc = "start"
    /\ \E candidates \in CandidateLists :
        resolver' = LoopFrom([resolver EXCEPT !.candidates = candidates], 1)
    /\ UNCHANGED <<quotaVars, service, tracker, engine, sidebar, calc>>

\* a candidate with no token: continue
SkipCandidate ==
    /\ resolver.pc = "candidate"
    /\ tokenMatch(resolver.candidates[resolver.i].cmdLine) = Undefined
    /\ resolver' = LoopFrom(resolver, resolver.i + 1)
    /\ UNCHANGED <<quotaVars, service, tracker, engine, sidebar, calc>>

\* await getListeningPortsWindows(pid, log) or getListeningPortsUnix(pid, log)
\* returned
ListPorts ==
    /\ resolver.pc = "candidate"
    /\ tokenMatch(resolver.candidates[resolver.i].cmdLine) # Undefined
    /\ \E path \in PortPaths, raw \in RawPorts :
        LET ports == getListeningPorts(path, raw)
            r == [resolver EXCEPT !.raw = raw, !.ports = ports,
                                  !.listed = Append(@, resolver.i)]
        IN  resolver' = IF Len(ports) = 0
                        THEN LoopFrom(r, resolver.i + 1)
                        ELSE [r EXCEPT !.pc = "probing", !.j = 1]
    /\ UNCHANGED <<quotaVars, service, tracker, engine, sidebar, calc>>

\* what the endpoint does with the request: it answers with a status and a
\* body, the transport fails, or nothing comes for 5000 ms
ProbeBodies == {"{}", "[]", "", "<html>"}
ProbeStatuses == {200, 204, 404, 500}
ProbeOutcomes ==
    {[kind |-> "response", status |-> status, body |-> body] :
        status \in ProbeStatuses, body \in ProbeBodies}
    \cup {[kind |-> "error", status |-> 0, body |-> ""],
          [kind |-> "timeout", status |-> 0, body |-> ""]}

\* JSON.parse(body) does not throw
ParsesAsJson(body) == body \in {"{}", "[]"}

\* the promise settled with resolve(value)
Resolved(value) == [settled |-> "resolved", value |-> value]

testPortPromise_anyStatus(outcome) ==
    CASE outcome.kind = "response" ->
            IF ParsesAsJson(outcome.body) THEN Resolved(TRUE) ELSE Resolved(FALSE)
      [] outcome.kind = "error" -> Resolved(FALSE)
      [] outcome.kind = "timeout" -> Resolved(FALSE)

\* testPort, lines 363-396: how the promise settles
testPortPromise(outcome) ==
    CASE outcome.kind = "response" ->
            IF outcome.status = 200
            THEN IF ParsesAsJson(outcome.body) THEN Resolved(TRUE) ELSE Resolved(FALSE)
            ELSE Resolved(FALSE)
      [] outcome.kind = "error" -> Resolved(FALSE)
      [] outcome.kind = "timeout" -> Resolved(FALSE)

\* await testPort(port, csrfToken) returned, in findWorkingPort
testPort ==
    /\ resolver.pc = "probing"
    /\ \E outcome \in ProbeOutcomes :
        LET ok == testPortPromise(outcome).value
            candidate == resolver.candidates[resolver.i]
            csrfToken == tokenMatch(candidate.cmdLine)[1]
            port == resolver.ports[resolver.j]
            r == [resolver EXCEPT !.probes =
                    Append(@, [candidate |-> resolver.i, port |-> port,
                               csrfToken |-> csrfToken, ok |-> ok])]
        IN  resolver' =
                IF ok
                THEN IF port # 0
                     THEN Returned(r, Some(Descriptor(r.candidates, r.i, csrfToken, port)))
                     ELSE LoopFrom(r, r.i + 1)
                ELSE IF r.j < Len(r.ports)
                     THEN [r EXCEPT !.j = @ + 1]
                     ELSE LoopFrom(r, r.i + 1)
    /\ UNCHANGED <<quotaVars, service, tracker, engine, sidebar, calc>>

\* await execAsync(cmd): exec is given no timeout, so while the child process
\* of the process listing or of the port listing does not exit, the await stays
\* pending and nothing else settles it
CommandHangs ==
    /\ \/ resolver.pc = "start"
       \/ /\ resolver.pc = "candidate"
          /\ tokenMatch(resolver.candidates[resolver.i].cmdLine) # Undefined
    /\ resolver' = [resolver EXCEPT !.pc = "hung"]
    /\ UNCHANGED <<quotaVars, service, tracker, engine, sidebar, calc>>

ResolverInit ==
    /\ QuotaInit
    /\ service = Idle
    /\ tracker = Idle
    /\ resolver = ResolverStart
    /\ engine = Idle
    /\ sidebar = Idle
    /\ calc = Idle

ResolverNext ==
    \/ findProcesses
    \/ SkipCandidate
    \/ ListPorts
    \/ testPort
    \/ CommandHangs

ResolverSpec == ResolverInit /\ [][ResolverNext]_vars

(***************************************************************************)
(* Claims about findAntigravityProcess                                     *)
(***************************************************************************)

Done == resolver.pc = "done"

\* the candidates whose command line has a token after --csrf_token
WithToken ==
    {n \in 1..Len(resolver.candidates) :
        \E k \in 1..(Len(resolver.candidates[n].cmdLine) - 1) :
            /\ resolver.candidates[n].cmdLine[k] = "--csrf_token"
            /\ resolver.candidates[n].cmdLine[k + 1] \in HexWords}

\* the probe that answered, if any: probes <<>> or <<p>>
Answered ==
    LET Ok(p) == p.ok
    IN  SelectSeq(resolver.probes, Ok)

\* C11: the candidates are walked in discovery order and the descriptor of the
\* first candidate with an answering port is returned, its pid, port and token
\* all taken from that candidate; with no candidates (also when the lookup
\* failed) or no answering port the result is null.
C11_FirstAnsweringCandidate ==
    /\ \A k \in 1..(Len(resolver.probes) - 1) :
        /\ resolver.probes[k].candidate <= resolver.probes[k + 1].candidate
        /\ ~resolver.probes[k].ok
    /\ \A k \in 1..(Len(resolver.listed) - 1) : resolver.listed[k] < resolver.listed[k + 1]
    /\ resolver.result # Undefined => Done
    /\ Done /\ Answered = <<>> =>
        /\ resolver.result = Undefined
        /\ {resolver.listed[k] : k \in 1..Len(resolver.listed)} = WithToken
    /\ Done /\ Answered # <<>> =>
        LET p == Answered[1]
            c == resolver.candidates[p.candidate]
        IN  /\ resolver.result # Undefined
            /\ resolver.result[1].pid = c.pid
            /\ resolver.result[1].connectPort = p.port
            /\ resolver.result[1].csrfToken = p.csrfToken
            /\ \E k \in 1..(Len(c.cmdLine) - 1) :
                c.cmdLine[k] = "--csrf_token" /\ c.cmdLine[k + 1] = p.csrfToken
            /\ {resolver.listed[k] : k \in 1..Len(resolver.listed)} =
                  {n \in WithToken : n <= p.candidate}

\* the first candidate did not answer and the second, with another token, did
C11_Witness ==
    /\ Done
    /\ Len(resolver.probes) >= 2
    /\ resolver.probes[1].candidate = 1
    /\ resolver.result # Undefined
    /\ resolver.result[1].pid = PidOf(2)
    /\ resolver.result[1].csrfToken # resolver.probes[1].csrfToken

\* the ports probed so far for the candidate whose ports were listed last
ProbedOfLast ==
    LET Mine(p) == p.candidate = resolver.listed[Len(resolver.listed)]
    IN  SelectSeq(resolver.probes, Mine)

\* the candidate listed last has been left, or the pass has ended
LeftLast == Done \/ (resolver.pc = "candidate" /\ resolver.i > resolver.listed[Len(resolver.listed)])

\* C12: the ports of a candidate are probed in ascending order, the first port
\* whose probe succeeds is returned and the ports after it are not probed; if
\* no probe succeeds the candidate yields no port.
C12_AscendingFirstSuccess ==
    /\ \A k \in 1..(Len(resolver.probes) - 1) :
        /\ ~resolver.probes[k].ok
        /\ resolver.probes[k].candidate = resolver.probes[k + 1].candidate =>
              resolver.probes[k].port <= resolver.probes[k + 1].port
    /\ resolver.listed # <<>> =>
        LET probed == {ProbedOfLast[k].port : k \in 1..Len(ProbedOfLast)}
            listening == {resolver.raw[k] : k \in 1..Len(resolver.raw)}
        IN  /\ probed \subseteq listening
            /\ \A p \in probed, q \in listening \ probed : p < q
            /\ LeftLast /\ Answered = <<>> => probed = listening
    /\ Done =>
        IF Answered = <<>> THEN resolver.result = Undefined
        ELSE resolver.result # Undefined /\ resolver.result[1].connectPort = Answered[1].port

\* ports printed in descending order: the lower was probed first and failed,
\* the higher answered and was returned
C12_Witness ==
    /\ Done
    /\ resolver.raw = <<5002, 5001>>
    /\ Len(ProbedOfLast) = 2
    /\ ProbedOfLast[1].port = 5001 /\ ~ProbedOfLast[1].ok
    /\ ProbedOfLast[2].port = 5002 /\ ProbedOfLast[2].ok
    /\ resolver.result # Undefined
    /\ resolver.result[1].connectPort = 5002

(***************************************************************************)
(* Further claims about the QuotaService                                   *)
(***************************************************************************)

\* C26: a manual refresh() starts exactly one fetch cycle and leaves the
\* polling timer as it is: it neither arms, cancels nor restarts it, whether
\* or not polling is running.
C26_RefreshLeavesTimer ==
    [][refresh => /\ InFlight' = InFlight + 1
                  /\ pollingTimer' = pollingTimer
                  /\ armedTimers' = armedTimers]_vars

\* initialize() returned false, so polling never started, and a refresh()
\* has started a cycle without arming a timer
C26_Witness ==
    /\ init.phase = "false"
    /\ InFlight = 1
    /\ pollingTimer = NoTimer
    /\ armedTimers = {}

(***************************************************************************)
(* Further claims about findAntigravityProcess                             *)
(***************************************************************************)

\* C27: within one resolution pass no port of a candidate is probed more than
\* once: the port list of a candidate has no duplicates on any enumeration
\* path, and a port whose probe failed is not probed again.
C27_NoPortProbedTwice ==
    \A k, l \in 1..Len(resolver.probes) :
        /\ resolver.probes[k].candidate = resolver.probes[l].candidate
        /\ resolver.probes[k].port = resolver.probes[l].port
        => k = l

\* the candidate at hand has no token
AtTokenless == resolver.pc = "candidate" /\ resolver.i \notin WithToken

\* C28: a candidate whose command line holds no extractable token is
\* discarded: its ports are neither listed nor probed, it is never returned
\* as the descriptor, and the pass goes on with the next candidate.
C28_TokenlessDiscarded ==
    /\ [](/\ \A k \in 1..Len(resolver.listed) : resolver.listed[k] \in WithToken
          /\ \A k \in 1..Len(resolver.probes) : resolver.probes[k].candidate \in WithToken
          /\ resolver.result # Undefined =>
                \E n \in WithToken : resolver.result[1].pid = resolver.candidates[n].pid)
    /\ [][AtTokenless /\ resolver' # resolver =>
            /\ resolver'.listed = resolver.listed
            /\ resolver'.probes = resolver.probes
            /\ IF resolver.i < Len(resolver.candidates)
               THEN resolver'.pc = "candidate" /\ resolver'.i = resolver.i + 1
               ELSE resolver'.pc = "done" /\ resolver'.result = Undefined]_vars

\* the first candidate had no token and the second was returned
C28_Witness ==
    /\ Done
    /\ 1 \notin WithToken
    /\ resolver.result # Undefined
    /\ resolver.result[1].pid = PidOf(2)
    /\ resolver.probes[1].candidate = 2

\* C23: every resolution pass terminates: each external command and each
\* network probe is bounded by a timeout with a failure outcome, so a pass that
\* has not returned can always take its next step; a hung command cannot block
\* it forever.
C23_PassTerminates ==
    resolver.op = "findAntigravityProcess" /\ resolver.pc # "done"
        => ENABLED ResolverNext

(***************************************************************************)
(* Further claims about the SidebarProvider and the configuration         *)
(***************************************************************************)

\* C25: toggling a group (the message 'toggleGroup', or deselecting it in the
\* command Toggle Model Groups) changes its effective visibility: a group
\* that getGroupConfig reports enabled before the toggle is reported not
\* enabled after it, also when the group has no stored entry.
C25_ToggleHides ==
    [][(toggleGroup \/ PickGroups(FALSE)) /\ getGroupConfig(sidebar.groups).enabled =>
          ~getGroupConfig(sidebar'.groups).enabled]_vars

(***************************************************************************)
(* Functions of the parser, the configuration and the port discovery,     *)
(* each called once on an input drawn from its domain.                    *)
(***************************************************************************)

\* most lines in the output of a port command
MaxSockets == 2

\* most entries in clientModelConfigs
MaxEntries == 2

\* what a user may have stored as a field of agmonitor.modelGroups[id]
StoredEnabled == {JsUndefined, JsBool(TRUE), JsBool(FALSE), JsStr("no"), JsNum(0)}
StoredLimit == {JsUndefined, JsNull, JsNum(50), JsStr("high")}
StoredConfs ==
    {JsUndefined}
    \cup {GroupConf(e, l) :
            e \in StoredEnabled,
            l \in {JsUndefined} \cup {Limits(y, r) : y, r \in StoredLimit}}

CallGetGroupConfig ==
    /\ calc.op = "getGroupConfig" /\ ~calc.returned
    /\ Return(getGroupConfig(calc.arg))
    /\ UNCHANGED <<quotaVars, service, tracker, resolver, engine, sidebar>>

\* strings that Number() reads as a number
NumericStrings == {"250", "1000"}
NumberOfString(str) == CASE str = "250" -> 250 [] str = "1000" -> 1000

\* Number(v)
ToNumber(v) ==
    CASE v.type = "number" -> v
      [] v.type = "string" ->
            IF v.str \in NumericStrings THEN JsNum(NumberOfString(v.str)) ELSE JsNaN
      [] v.type = "null" -> JsNum(0)
      [] OTHER -> JsNaN

\* (n / d) * 100, which is exact for the amounts drawn: d divides n * 100
Percent(n, d) == (n * 100) \div d

\* userStatus.planStatus?.planInfo and ?.availablePromptCredits
OptField(object, name) ==
    IF object.type # "object" THEN JsUndefined
    ELSE IF name = "planInfo" THEN object.planInfo
    ELSE IF name = "availablePromptCredits" THEN object.availablePromptCredits
    ELSE object.monthlyPromptCredits

PromptCredits_swapped(monthly, available) ==
    [available |-> available,
     monthly |-> monthly,
     usedPercentage |-> Percent(available, monthly),
     remainingPercentage |-> Percent(monthly - available, monthly)]

\* promptCredits = { available, monthly, usedPercentage, remainingPercentage }
PromptCredits(monthly, available) ==
    [available |-> available,
     monthly |-> monthly,
     usedPercentage |-> Percent(monthly - available, monthly),
     remainingPercentage |-> Percent(available, monthly)]

\* parseQuotaResponse, lines 441-458: promptCredits, or undefined
parseCredits(planStatus) ==
    LET planInfo == OptField(planStatus, "planInfo")
        availableCredits == OptField(planStatus, "availablePromptCredits")
    IN  IF Truthy(planInfo) /\ availableCredits # JsUndefined
        THEN LET monthly == ToNumber(OptField(planInfo, "monthlyPromptCredits"))
                 available == ToNumber(availableCredits)
             IN  IF monthly.type = "number" /\ monthly.num > 0
                 THEN Some(PromptCredits(monthly.num, available.num))
                 ELSE Undefined
        ELSE Undefined

\* userStatus.planStatus in a payload
MonthlyValues == {JsUndefined, JsNull, JsNum(0), JsNum(0 - 1000), JsNum(500), JsNum(1000),
                  JsStr("1000")}
AvailableValues == {JsUndefined, JsNull, JsNum(0), JsNum(250), JsNum(1000), JsStr("250")}
PlanStatuses ==
    {JsUndefined}
    \cup {[type |-> "object", planInfo |-> planInfo, availablePromptCredits |-> a] :
            planInfo \in {JsUndefined}
                         \cup {[type |-> "object", monthlyPromptCredits |-> m] :
                                  m \in MonthlyValues},
            a \in AvailableValues}

CallParseCredits ==
    /\ calc.op = "parseQuotaResponse" /\ ~calc.returned
    /\ Return([promptCredits |-> parseCredits(calc.arg)])
    /\ UNCHANGED <<quotaVars, service, tracker, resolver, engine, sidebar>>

\* `${n}` of a non-negative integer, as its characters
Digit(d) == <<"0", "1", "2", "3", "4", "5", "6", "7", "8", "9">>[d + 1]
RECURSIVE NatToString(_)
NatToString(n) ==
    IF n < 10 THEN <<Digit(n)>> ELSE NatToString(n \div 10) \o <<Digit(n % 10)>>

CeilMinutes_floor(ms) == ms \div 60000

\* Math.ceil(ms / 60000) of a positive number of milliseconds
CeilMinutes(ms) == (ms + 59999) \div 60000

\* `${mins}m` or `${hours}h ${mins % 60}m`; NaN < 60 is false and NaN prints as NaN
Duration(mins) ==
    IF mins.type = "NaN"
    THEN <<"N", "a", "N", "h", " ", "N", "a", "N", "m">>
    ELSE IF mins.num < 60
         THEN NatToString(mins.num) \o <<"m">>
         ELSE NatToString(mins.num \div 60) \o <<"h", " ">>
              \o NatToString(mins.num % 60) \o <<"m">>

ReadyText == <<"R", "e", "a", "d", "y">>

formatResetTime_strict(ms, stamp) ==
    IF ms.type = "number" /\ ms.num < 0 THEN ReadyText
    ELSE LET mins == IF ms.type = "number" THEN JsNum(CeilMinutes(ms.num)) ELSE JsNaN
         IN  Duration(mins) \o <<" ", "(">> \o stamp \o <<")">>

\* formatResetTime, lines 485-498; stamp is `${dateStr} ${timeStr}`
formatResetTime(ms, stamp) ==
    IF ms.type = "number" /\ ms.num <= 0 THEN ReadyText
    ELSE LET mins == IF ms.type = "number" THEN JsNum(CeilMinutes(ms.num)) ELSE JsNaN
         IN  Duration(mins) \o <<" ", "(">> \o stamp \o <<")">>

\* resetTime.getTime() - now.getTime(), NaN for a resetTime that is no date
Durations ==
    {JsNaN} \cup {JsNum(ms) : ms \in {0 - 3600000, 0 - 1, 0, 1, 59999, 60000, 60001,
                                      3540000, 3540001, 3600000, 18000000, 86400001}}
\* the date and the time the locale prints
Stamps == {<<"0", "6", "/", "1", "1", "/", "2", "0", "2", "6", " ", "0", "9", ":", "0", "0">>,
           <<"I", "n", "v", "a", "l", "i", "d", " ", "D", "a", "t", "e", " ",
             "I", "n", "v", "a", "l", "i", "d", " ", "D", "a", "t", "e">>}

CallFormatResetTime ==
    /\ calc.op = "formatResetTime" /\ ~calc.returned
    /\ Return(formatResetTime(calc.arg.ms, calc.arg.stamp))
    /\ UNCHANGED <<quotaVars, service, tracker, resolver, engine, sidebar>>

CallTestPort ==
    /\ calc.op = "testPort" /\ ~calc.returned
    /\ Return(testPortPromise(calc.arg))
    /\ UNCHANGED <<quotaVars, service, tracker, resolver, engine, sidebar>>

\* the sockets of the machine, one per line of output: owning process id,
\* protocol, state and local port
OwnerPids == {34, 234, 345}
SocketKinds == {[proto |-> "TCP", state |-> "LISTEN"],
                [proto |-> "TCP", state |-> "ESTABLISHED"],
                [proto |-> "UDP", state |-> ""]}
Sockets ==
    {[owner |-> owner, proto |-> kind.proto, state |-> kind.state, port |-> port] :
        owner \in OwnerPids, kind \in SocketKinds, port \in ListeningPorts}
SocketTables == UNION {[1..n -> Sockets] : n \in 0..MaxSockets}

\* the commands ports are read with
PortCommands == {"Get-NetTCPConnection", "netstat", "lsof", "ss"}

\* line.trim().endsWith(`${pid}`): the line ends with its owner's process id
EndsWithPid(socket, pid) ==
    LET line == NatToString(socket.owner)
        suffix == NatToString(pid)
    IN  /\ Len(suffix) <= Len(line)
        /\ SubSeq(line, Len(line) - Len(suffix) + 1, Len(line)) = suffix

\* grep "pid=${pid}" on a line whose users column reads pid=<owner>,fd=...
GrepPid(socket, pid) ==
    StrIncludes(<<"p", "i", "d", "=">> \o NatToString(socket.owner) \o <<",">>,
                <<"p", "i", "d", "=">> \o NatToString(pid))

\* the lines of the command's output the code takes a port from
SelectsLine(command, socket, pid) ==
    CASE command = "Get-NetTCPConnection" ->
            socket.owner = pid /\ socket.proto = "TCP" /\ socket.state = "LISTEN"
      [] command = "netstat" ->
            EndsWithPid(socket, pid) /\ socket.proto \in {"TCP", "UDP"}
      [] command = "lsof" ->
            socket.owner = pid /\ socket.proto = "TCP" /\ socket.state = "LISTEN"
      [] command = "ss" ->
            socket.proto = "TCP" /\ socket.state = "LISTEN" /\ GrepPid(socket, pid)

RECURSIVE PortsOfLines(_, _, _)
PortsOfLines(command, sockets, pid) ==
    IF sockets = <<>> THEN <<>>
    ELSE (IF SelectsLine(command, Head(sockets), pid) THEN <<Head(sockets).port>> ELSE <<>>)
         \o PortsOfLines(command, Tail(sockets), pid)

\* ss ... | grep "pid=${pid}" || lsof ...: lsof runs when grep selects no line
RawPortsOf(command, sockets, pid) ==
    IF command = "ss" /\ PortsOfLines("ss", sockets, pid) = <<>>
    THEN PortsOfLines("lsof", sockets, pid)
    ELSE PortsOfLines(command, sockets, pid)

PortPathOf(command) ==
    CASE command = "Get-NetTCPConnection" -> "powershell"
      [] command = "netstat" -> "netstat"
      [] OTHER -> "unix"

\* getListeningPortsWindows(pid, log) and getListeningPortsUnix(pid, log)
CallGetListeningPorts ==
    /\ calc.op = "getListeningPorts" /\ ~calc.returned
    /\ Return(getListeningPorts(PortPathOf(calc.arg.command),
                                RawPortsOf(calc.arg.command, calc.arg.sockets,
                                           calc.arg.pid)))
    /\ UNCHANGED <<quotaVars, service, tracker, resolver, engine, sidebar>>


\* a fraction n / d as a number
Fraction(n, d) == [type |-> "number", num |-> n, den |-> d]

\* v * 100 of a fraction, null * 100 = 0; exact for the fractions drawn: the
\* denominator divides n * 100
Times100(v) ==
    IF v.type = "null" THEN JsNum(0) ELSE JsNum((v.num * 100) \div v.den)

\* v === 0
IsZero(v) == v.type = "number" /\ v.num = 0

\* m.label || 'Unknown'
LabelOf(m) == IF Truthy(m.label) THEN m.label ELSE JsStr("Unknown")

HasQuotaInfo_fraction(m) ==
    Truthy(m.quotaInfo) /\ m.quotaInfo.remainingFraction # JsUndefined

\* .filter((m: any) => m.quotaInfo)
HasQuotaInfo(m) == Truthy(m.quotaInfo)

RemainingPercentage_defaulted(quotaInfo) ==
    IF quotaInfo.remainingFraction.type = "number"
    THEN Times100(quotaInfo.remainingFraction)
    ELSE JsNum(0)

\* remainingFraction !== undefined ? remainingFraction * 100 : undefined
RemainingPercentage(quotaInfo) ==
    IF quotaInfo.remainingFraction # JsUndefined
    THEN Times100(quotaInfo.remainingFraction)
    ELSE JsUndefined

\* the item .map() builds from an entry (label, fraction, percentage, exhausted)
ModelItem(m) ==
    [label |-> LabelOf(m),
     remainingFraction |-> m.quotaInfo.remainingFraction,
     remainingPercentage |-> RemainingPercentage(m.quotaInfo),
     isExhausted |-> IsZero(m.quotaInfo.remainingFraction)]

RECURSIVE FilterMap(_)
FilterMap(rawModels) ==
    IF rawModels = <<>> THEN <<>>
    ELSE (IF HasQuotaInfo(Head(rawModels)) THEN <<ModelItem(Head(rawModels))>> ELSE <<>>)
         \o FilterMap(Tail(rawModels))

\* an array value
JsArray(items) == [type |-> "array", items |-> items]

\* parseQuotaResponse, lines 460-480: models
parseModels(clientModelConfigs) ==
    IF Truthy(clientModelConfigs) THEN FilterMap(clientModelConfigs.items) ELSE <<>>

\* cascadeModelConfigData?.clientModelConfigs in a payload
ReportedFractions == {JsUndefined, JsNull, Fraction(0, 1), Fraction(1, 4), Fraction(1, 1)}
QuotaInfos ==
    {JsUndefined, JsNull}
    \cup {[type |-> "object", remainingFraction |-> f] : f \in ReportedFractions}
ReportedEntries ==
    {[label |-> label, quotaInfo |-> q] :
        label \in {JsUndefined, JsStr("Claude Opus")}, q \in QuotaInfos}
ClientModelConfigs ==
    {JsUndefined}
    \cup {JsArray(items) : items \in UNION {[1..n -> ReportedEntries] : n \in 0..MaxEntries}}

CallParseModels ==
    /\ calc.op = "parseModels" /\ ~calc.returned
    /\ Return(parseModels(calc.arg))
    /\ UNCHANGED <<quotaVars, service, tracker, resolver, engine, sidebar>>

FunctionCalls ==
    {Call("getGroupConfig", groupConf) : groupConf \in StoredConfs}
    \cup {Call("parseQuotaResponse", planStatus) : planStatus \in PlanStatuses}
    \cup {Call("formatResetTime", [ms |-> ms, stamp |-> stamp]) :
              ms \in Durations, stamp \in Stamps}
    \cup {Call("testPort", outcome) : outcome \in ProbeOutcomes}
    \cup {Call("getListeningPorts", [command |-> command, pid |-> 34, sockets |-> sockets]) :
              command \in PortCommands, sockets \in SocketTables}
    \cup {Call("parseModels", rawModels) : rawModels \in ClientModelConfigs}

FunctionsInit ==
    /\ QuotaInit
    /\ service = Idle
    /\ tracker = Idle
    /\ resolver = Idle
    /\ engine = Idle
    /\ sidebar = Idle
    /\ calc \in FunctionCalls

FunctionsNext ==
    \/ CallGetGroupConfig
    \/ CallParseCredits
    \/ CallFormatResetTime
    \/ CallTestPort
    \/ CallGetListeningPorts
    \/ CallParseModels

FunctionsSpec == FunctionsInit /\ [][FunctionsNext]_vars

(***************************************************************************)
(* Claims about these functions                                            *)
(***************************************************************************)

GroupConfigReturned == calc.op = "getGroupConfig" /\ calc.returned

\* the stored field if it has the type the setting declares, else the default
C24_Field(stored, type, default) == IF stored.type = type THEN stored ELSE default

ParseReturned == calc.op = "parseQuotaResponse" /\ calc.returned

\* the monthly allocation and the available balance of the payload, read as
\* numbers; a field that is not in the payload is undefined
C21_Monthly ==
    IF calc.arg.type = "object" /\ calc.arg.planInfo.type = "object"
    THEN calc.arg.planInfo.monthlyPromptCredits ELSE JsUndefined
C21_Available ==
    IF calc.arg.type = "object" /\ calc.arg.planInfo.type = "object"
    THEN calc.arg.availablePromptCredits ELSE JsUndefined
C21_Amount(v) ==
    CASE v.type = "number" -> v.num
      [] v.type = "string" /\ v.str = "250" -> 250
      [] v.type = "string" /\ v.str = "1000" -> 1000
      [] OTHER -> 0

FormatReturned == calc.op = "formatResetTime" /\ calc.returned

\* C22: for every reset duration d, formatResetTime returns the string "Ready"
\* if and only if d <= 0.
C22_ReadyIffElapsed ==
    FormatReturned =>
        (calc.out = ReadyText <=> (calc.arg.ms.type = "number" /\ calc.arg.ms.num <= 0))

\* a duration of exactly 0 was formatted as Ready, and one of a millisecond was not
C22_Witness ==
    /\ FormatReturned
    /\ calc.arg.ms = JsNum(0)
    /\ calc.out = ReadyText
    /\ formatResetTime(JsNum(1), calc.arg.stamp) # ReadyText

ProbeSettled == calc.op = "testPort" /\ calc.returned

\* C29: the endpoint probe reports success if and only if the endpoint answers
\* with HTTP status 200 and a body that parses as JSON; a non-200 status, an
\* unparseable body, a transport error and a timeout each make it report
\* failure, and the probe always resolves: it never throws or rejects.
C29_ProbeSuccess ==
    ProbeSettled =>
        /\ calc.out.settled = "resolved"
        /\ calc.out.value \in BOOLEAN
        /\ calc.out.value <=>
              /\ calc.arg.kind = "response"
              /\ calc.arg.status = 200
              /\ ParsesAsJson(calc.arg.body)
        /\ calc.arg.kind \in {"error", "timeout"} => calc.out.value = FALSE

\* an answer with a parseable body and a status other than 200 was reported
\* as a failure
C29_Witness ==
    /\ ProbeSettled
    /\ calc.arg = [kind |-> "response", status |-> 204, body |-> "{}"]
    /\ calc.out = Resolved(FALSE)

PortsReturned == calc.op = "getListeningPorts" /\ calc.returned

\* C30: every port returned by the port enumeration for process id P is a TCP
\* port in LISTEN state owned by P: no port of another process, of a connection
\* in another state, or of UDP is returned, with any command.
C30_OwnListeningPorts ==
    PortsReturned =>
        \A k \in 1..Len(calc.out) :
            \E n \in 1..Len(calc.arg.sockets) :
                LET socket == calc.arg.sockets[n]
                IN  /\ socket.port = calc.out[k]
                    /\ socket.owner = calc.arg.pid
                    /\ socket.proto = "TCP"
                    /\ socket.state = "LISTEN"

ModelsParsed == calc.op = "parseModels" /\ calc.returned

\* the positions of the reported entries that have quota information, ascending
RECURSIVE C31_Positions(_, _)
C31_Positions(entries, n) ==
    IF n > Len(entries) THEN <<>>
    ELSE (IF entries[n].quotaInfo.type = "object" THEN <<n>> ELSE <<>>)
         \o C31_Positions(entries, n + 1)
C31_Reported == IF calc.arg = JsUndefined THEN <<>> ELSE calc.arg.items

\* C31: parseQuotaResponse drops exactly the reported entries that have no
\* quota information and keeps every other entry in the order reported: the
\* items are the order-preserving sub-sequence of the entries with quota
\* information.
C31_KeepsEntriesWithQuota ==
    ModelsParsed =>
        LET kept == C31_Positions(C31_Reported, 1)
        IN  /\ Len(calc.out) = Len(kept)
            /\ \A k \in 1..Len(kept) :
                  LET m == C31_Reported[kept[k]]
                  IN  /\ calc.out[k].remainingFraction = m.quotaInfo.remainingFraction
                      /\ calc.out[k].label =
                            IF m.label = JsUndefined THEN JsStr("Unknown") ELSE m.label

\* an entry without quota information between two entries with it was dropped,
\* and an entry with quota information but no fraction was kept
C31_Witness ==
    /\ ModelsParsed
    /\ Len(C31_Reported) = 2
    /\ C31_Reported[1].quotaInfo = JsUndefined
    /\ C31_Reported[2].quotaInfo = [type |-> "object", remainingFraction |-> JsUndefined]
    /\ Len(calc.out) = 1
    /\ calc.out[1].label = C31_Reported[2].label

C33_Suffix == <<" ", "(">> \o calc.arg.stamp \o <<")">>
C33_Minute == 60 * 1000
\* the least whole number of minutes that is not less than ms
C33_Ceil(ms) ==
    CHOOSE m \in 0..(ms \div C33_Minute + 1) :
        m * C33_Minute >= ms /\ (m - 1) * C33_Minute < ms
C33_Positive == FormatReturned /\ calc.arg.ms.type = "number" /\ calc.arg.ms.num > 0

\* C33 as stated: every reset duration d with 0 < d < 60 minutes is rendered as
\* whole minutes only ("Nm", no hours component), and every d >= 60 minutes as
\* hours plus minutes ("Hh Mm") with the minutes component in 0..59.
C33_MinutesUnderAnHour ==
    C33_Positive =>
        LET ms == calc.arg.ms.num
        IN  /\ ms < 60 * C33_Minute =>
                  \E n \in 0..60 : calc.out = NatToString(n) \o <<"m">> \o C33_Suffix
            /\ ms >= 60 * C33_Minute =>
                  \E h \in 1..(ms \div (60 * C33_Minute) + 1), m \in 0..59 :
                      calc.out = NatToString(h) \o <<"h", " ">> \o NatToString(m)
                                 \o <<"m">> \o C33_Suffix

\* C33, amended: with m the duration rounded up to whole minutes, a positive
\* duration is rendered as "mm" only when m < 60, and as "Hh Mm" with
\* H = m div 60 and M = m mod 60 in 0..59 when m >= 60; a duration between 59 and
\* 60 minutes is rendered as "1h 0m".
C33_RoundedMinutes ==
    C33_Positive =>
        LET m == C33_Ceil(calc.arg.ms.num)
        IN  /\ m < 60 => calc.out = NatToString(m) \o <<"m">> \o C33_Suffix
            /\ m >= 60 =>
                  /\ m % 60 \in 0..59
                  /\ calc.out = NatToString(m \div 60) \o <<"h", " ">>
                                \o NatToString(m % 60) \o <<"m">> \o C33_Suffix

\* a duration of 59 minutes and a millisecond was rendered as 1h 0m
C33_Witness ==
    /\ FormatReturned
    /\ calc.arg.ms = JsNum(3540001)
    /\ calc.out = <<"1", "h", " ", "0", "m">> \o C33_Suffix

(***************************************************************************)
(* Further claims about the sticky red states                              *)
(***************************************************************************)
\* C34: in every state reachable by engine steps from the initial sticky state
\* (all false), conditionAMet implies dippedBelow4h and dippedBelow4h implies
\* active; an inactive group has both hysteresis flags false.
C34_FlagsNested ==
    engine.op = "stickyRed" =>
        /\ engine.state.conditionAMet => engine.state.dippedBelow4h
        /\ engine.state.dippedBelow4h => engine.state.active
        /\ ~engine.state.active =>
              ~engine.state.dippedBelow4h /\ ~engine.state.conditionAMet

\* an active group has dipped and recovered, and is not yet reset: all three
\* flags are set
C34_Witness ==
    /\ engine.op = "stickyRed"
    /\ engine.steps >= 3
    /\ engine.state = [active |-> TRUE, dippedBelow4h |-> TRUE, conditionAMet |-> TRUE]
    /\ engine.worstPct < 100

\* C35: applying the engine step twice in a row with the same input (the same
\* maxReset and pct, as when the last snapshot is sent again) gives the same
\* sticky state and the same isLongReset as applying it once, from every
\* reachable state.
C35_StepIdempotent ==
    [][(/\ engine.op = "stickyRed"
        /\ engine.steps >= 1
        /\ engine'.maxResetMs = engine.maxResetMs
        /\ engine'.worstPct = engine.worstPct)
       => /\ engine'.state = engine.state
          /\ engine'.isLongReset = engine.isLongReset]_vars

\* after activation and a dip, the step that recovered above four hours with
\* less than 100% was applied a second time with the same input
C35_Witness ==
    /\ engine.op = "stickyRed"
    /\ engine.again
    /\ engine.state = [active |-> TRUE, dippedBelow4h |-> TRUE, conditionAMet |-> TRUE]
    /\ engine.maxResetMs > FOUR_HOURS_MS

(***************************************************************************)
(* The polling client once the language server is up for good: polling     *)
(* has been started, the client holds a stale descriptor, the right one or *)
(* none, and from now on the server is found by every resolution pass and  *)
(* answers every status request sent to the port it listens on.            *)
(***************************************************************************)

\* the number of ticks counted
MaxTicks == 3

\* what a status request to the address req ends with: the server answers on
\* its own port; nothing listens on the port it has left
Answers(req) ==
    IF req = Address(service.info)
    THEN {[kind |-> "resolved", body |-> "status", err |-> NoError]}
    ELSE {[kind |-> "rejected", body |-> NULL, err |-> err] :
             err \in {ErrRefused, ErrTimeout}}

\* a snapshot has been emitted
Emitted(out) ==
    service' = [service EXCEPT !.emitted = @ \/ FetchSucceeded(out)]

ChurnTick ==
    /\ Tick
    /\ service' = [service EXCEPT !.ticks = IF @ < MaxTicks THEN @ + 1 ELSE @]
    /\ UNCHANGED others

ChurnFetch ==
    /\ \E c \in Suspended("fetching") : \E out \in Answers(c.req) :
        FetchSettles(c, out) /\ Emitted(out)
    /\ UNCHANGED others

ChurnReconnect ==
    /\ \E c \in Suspended("reconnecting") : ReconnectSettles(c, service.info)
    /\ UNCHANGED <<others, service>>

ChurnConnect ==
    /\ \E c \in Suspended("connecting") : ConnectSettles(c, service.info)
    /\ UNCHANGED <<others, service>>

ChurnRetry ==
    /\ \E c \in Suspended("retrying") : \E out \in Answers(c.req) :
        RetrySettles(c, out) /\ Emitted(out)
    /\ UNCHANGED others

\* activate() has started polling; then the server restarted or was lost
ChurnInit ==
    /\ service \in {[op |-> "up", info |-> info, ticks |-> 0, emitted |-> FALSE] :
                       info \in ProcessInfos}
    /\ processInfo \in ResolveResults
    /\ lastResolved = processInfo
    /\ pollingTimer = NewTimer({})
    /\ armedTimers = {pollingTimer}
    /\ disposed = FALSE
    /\ consecutiveFailures \in 0..MaxFailures
    /\ lastSnapshot \in {NoSnapshot, SnapshotOf("status")}
    /\ cycles = EmptyBag
    /\ init = [phase |-> "true", errs |-> 0, snaps |-> 0, resolves |-> 1, fired |-> NoError]
    /\ lastEnded = NoneEnded
    /\ resolver = Idle
    /\ engine = Idle
    /\ sidebar = Idle
    /\ calc = Idle
    /\ tracker = Idle

ChurnNext ==
    \/ ChurnTick
    \/ ChurnFetch
    \/ ChurnReconnect
    \/ ChurnConnect
    \/ ChurnRetry

\* the timer keeps firing, and the server answers every pass and request
ChurnSpec ==
    /\ ChurnInit
    /\ [][ChurnNext]_vars
    /\ WF_vars(ChurnTick)
    /\ WF_vars(ChurnFetch)
    /\ WF_vars(ChurnReconnect)
    /\ WF_vars(ChurnConnect)
    /\ WF_vars(ChurnRetry)

\* C37: once polling has been started and the server is found by every pass
\* and answers every request, a snapshot is emitted from any client state
\* within at most two scheduled ticks: when two ticks have fired and their
\* cycles have ended, a snapshot has been emitted.
C37_WithinTwoTicks ==
    service.op = "up" /\ service.ticks >= 2 /\ InFlight = 0 => service.emitted

(***************************************************************************)
(* Further claims about the QuotaService: cycles, timers, lastSnapshot     *)
(***************************************************************************)

\* a returned cycle that started without a descriptor
C36_Case(e) == e.first = "na" /\ e.resolved # "na"

\* C36: a fetch cycle that starts while the client holds no descriptor runs the
\* resolver exactly once and ends without issuing a status request; it emits
\* neither a snapshot nor an error, whether the resolution succeeds or fails.
C36_ConnectOnlyCycle ==
    /\ \A c \in Suspended("connecting") :
          c.resolves = 1 /\ c.requests = 0 /\ c.snaps = 0 /\ c.errs = 0
    /\ C36_Case(lastEnded) =>
          /\ lastEnded.resolves = 1
          /\ lastEnded.requests = 0
          /\ lastEnded.snaps = 0
          /\ lastEnded.errs = 0
          /\ lastEnded.retry = "na"

\* such a cycle has returned after a successful resolution: the client holds
\* the descriptor and nothing was emitted
C36_Witness ==
    /\ C36_Case(lastEnded)
    /\ lastEnded.resolved = "found"
    /\ processInfo # NoInfo
    /\ lastEnded.snaps = 0

\* C38: at most one interval timer is armed, and it is the one _pollingTimer
\* holds; startPolling() while polling is active cancels the previous timer
\* before arming the new one, and after stopPolling() or dispose() no timer is
\* armed.
C38_OneTimer ==
    /\ [](/\ Cardinality(armedTimers) <= 1
          /\ armedTimers = IF pollingTimer = NoTimer THEN {} ELSE {pollingTimer})
    /\ [][startPolling => armedTimers' = {pollingTimer'} /\ pollingTimer' # NoTimer]_vars
    /\ [][stopPolling \/ dispose => armedTimers' = {} /\ pollingTimer' = NoTimer]_vars

\* polling is active and two cycles are in flight before any has returned:
\* the one startPolling() started and one more
C38_Witness ==
    /\ pollingTimer # NoTimer
    /\ armedTimers = {pollingTimer}
    /\ InFlight = 2
    /\ lastEnded = NoneEnded

MaxRecords == 502

MAX_HISTORY == 500

\* array.slice(-count)
SliceLast(array, count) ==
    IF Len(array) <= count THEN array
    ELSE SubSeq(array, Len(array) - count + 1, Len(array))

Trimmed_oldest(history) ==
    IF Len(history) > MAX_HISTORY THEN SubSeq(history, 1, MAX_HISTORY) ELSE history

\* if (this._history.length > MAX_HISTORY) this._history = this._history.slice(-MAX_HISTORY)
Trimmed(history) ==
    IF Len(history) > MAX_HISTORY THEN SliceLast(history, MAX_HISTORY) ELSE history

\* the StoredSnapshot of a snapshot: its timestamp as an ISO string, which
\* tells two snapshots apart, and its models with their reset times as ISO
\* strings
StoredSnapshot(snapshot) == [timestamp |-> <<"iso", snapshot.timestamp>>]

\* _persist(): globalState.update(STORAGE_KEY, this._history)
persist(history) == history

\* new UsageTracker(globalState), in a later session as well: the history is
\* what the global state holds
NewUsageTracker ==
    /\ tracker.op = "tracker"
    /\ tracker.last # "constructor"
    /\ tracker' = [tracker EXCEPT !.history = tracker.stored, !.last = "constructor"]
    /\ UNCHANGED <<quotaVars, service, resolver, engine, sidebar, calc>>

\* recordSnapshot(snapshot). The snapshots are numbered by their timestamps in
\* the order of the calls that stored them; toISOString() throws a RangeError
\* for the Invalid Date that parseQuotaResponse makes of an entry without
\* resetTime, before anything is stored.
recordSnapshot ==
    /\ tracker.op = "tracker"
    /\ Len(tracker.log) < MaxRecords
    /\ \E dated \in BOOLEAN :
          LET snapshot == [timestamp |-> Len(tracker.log) + 1, dated |-> dated]
              history == Trimmed(Append(tracker.history, StoredSnapshot(snapshot)))
          IN  IF dated
              THEN tracker' = [tracker EXCEPT !.history = history,
                                              !.stored = persist(history),
                                              !.log = Append(tracker.log, snapshot),
                                              !.last = "recordSnapshot"]
              ELSE tracker' = [tracker EXCEPT !.last = "threw"]
    /\ UNCHANGED <<quotaVars, service, resolver, engine, sidebar, calc>>

\* resetHistory()
resetHistory ==
    /\ tracker.op = "tracker"
    /\ tracker' = [tracker EXCEPT !.history = <<>>,
                                  !.stored = persist(<<>>),
                                  !.log = <<>>,
                                  !.last = "resetHistory"]
    /\ UNCHANGED <<quotaVars, service, resolver, engine, sidebar, calc>>

\* a fresh installation: the global state holds no history, get() returns
\* the default []. log is history: the snapshots stored since the last reset.
TrackerInit ==
    /\ QuotaInit
    /\ service = Idle
    /\ resolver = Idle
    /\ engine = Idle
    /\ sidebar = Idle
    /\ calc = Idle
    /\ tracker = [op |-> "tracker", history |-> <<>>, stored |-> <<>>, log |-> <<>>,
                  last |-> "constructor"]

TrackerNext ==
    \/ NewUsageTracker
    \/ recordSnapshot
    \/ resetHistory

TrackerSpec == TrackerInit /\ [][TrackerNext]_vars

\* C40: after any sequence of recordSnapshot() and resetHistory() calls the
\* history holds at most 500 entries, which are the most recent min(n, 500)
\* snapshots recorded since the last reset, in the order recorded, and the
\* copy in the global state equals the history in memory.
C40_BoundedRecentHistory ==
    tracker.op = "tracker" =>
        LET n == Len(tracker.log)
            k == IF n < MAX_HISTORY THEN n ELSE MAX_HISTORY
        IN  /\ Len(tracker.history) <= MAX_HISTORY
            /\ Len(tracker.history) = k
            /\ \A i \in 1..k :
                  tracker.history[i] = StoredSnapshot(tracker.log[n - k + i])
            /\ tracker.stored = tracker.history

\* two snapshots more than the history holds were recorded: the two oldest
\* are gone
C40_Witness ==
    /\ tracker.op = "tracker"
    /\ tracker.last = "recordSnapshot"
    /\ Len(tracker.log) = MAX_HISTORY + 2
    /\ Len(tracker.history) = MAX_HISTORY
    /\ tracker.history[1] = StoredSnapshot(tracker.log[3])

====
